---------------------------- MODULE Spec2Model ----------------------------
(* The rating engine of moneyball: the sequential Elo updater of            *)
(* src/src/elo/elo-calculator/calcaulate-elos.py, season by season, with    *)
(* its new-team assignment, per-match update and end-of-season standings.   *)
(*                                                                          *)
(* Numbers.  The program computes in floating point.  Here every rating is  *)
(* an integer number of thousandths of a rating point and every score       *)
(* (actual or expected) an integer number of thousandths (Unit = 1000), so  *)
(* R + K*(S - E) is exact.  10 ** (x / 500) is tabulated every 100 rating   *)
(* points and interpolated linearly in between.  Floating-point rounding is *)
(* not modelled.                                                            *)
EXTENDS Integers, Sequences, FiniteSets, TLC

(***************************************************************************)
(* Bounds of the model                                                     *)
(***************************************************************************)
\* the largest team identifier of the match corpus (identifiers 0..MaxTeam)
MaxTeam == 3
\* the largest size of the match corpus: its documents plus their fields
\* that hold no proper value
MaxSize == 3
\* goal counts of a match range over 0..MaxGoals
MaxGoals == 1
\* the largest number of persistence failures of a run
MaxFaults == 1

(***************************************************************************)
(* Values                                                                  *)
(***************************************************************************)
\* thousandths: the fixed-point unit of ratings and scores
Unit == 1000
\* match.get(field) of a key the document does not hold
Absent == -1
\* a field holding None (a JSON null)
Null == -2
\* a field holding a value int() rejects (a non-numeric string)
BadInt == -3

INITIAL_ELO == 1500 * Unit
K_FACTOR == 20
HOME_ADVANTAGE == 100 * Unit

\* get_prior_season's None
NoSeason == <<>>

(***************************************************************************)
(* Small helpers                                                           *)
(***************************************************************************)
Range(s) == {s[i] : i \in 1..Len(s)}

RECURSIVE SumSet(_, _)
\* sum(f[x] for x in S)
SumSet(f, S) ==
  IF S = {} THEN 0
  ELSE LET x == CHOOSE y \in S : TRUE IN f[x] + SumSet(f, S \ {x})

\* sum(d.values()) of a dict d
SumValues(d) == SumSet(d, DOMAIN d)

\* d.get(k, default)
DictGet(d, k, default) == IF k \in DOMAIN d THEN d[k] ELSE default

\* d[k] = v on a dict d
DictSet(d, k, v) == [x \in (DOMAIN d) \cup {k} |-> IF x = k THEN v ELSE d[x]]

\* the empty dict
EmptyDict == [x \in {} |-> 0]

\* Python's "value is None" of match.get(field)
IsNone(v) == v \in {Absent, Null}

\* Python's truth value of a team identifier: None and 0 are false
Truthy(v) == ~IsNone(v) /\ v # 0

\* int(v) raises ValueError or TypeError
IntFails(v) == v \in {Null, BadInt}

(***************************************************************************)
(* Outcome model (pure functions)                                          *)
(***************************************************************************)
\* 1000 / (1 + 10 ** (-d / 500)) at d = -1000, -900, ..., 1000 rating points
ExpectedTable ==
  << 10, 16, 25, 38, 59, 91, 137, 201, 285, 387, 500,
     613, 715, 799, 863, 909, 941, 962, 975, 984, 990 >>

\* 1 / (1 + 10 ** ((RB - RA_adj) / 500)) in thousandths, RB and RA_adj in
\* thousandths of a point: the table, interpolated, flat beyond +-1000 points
Expected(RA_adj, RB) ==
  LET span == 100 * Unit
      raw == RA_adj - RB
      d == IF raw < -10 * span THEN -10 * span
           ELSE IF raw > 10 * span THEN 10 * span ELSE raw
      off == d + 10 * span
      i == (off \div span) + 1
      frac == off % span
  IN IF i >= 21 THEN ExpectedTable[21]
     ELSE ExpectedTable[i]
          + ((ExpectedTable[i + 1] - ExpectedTable[i]) * frac) \div span

\* get_elo(RA, RB, home_advantage): <<EA, EB>>
get_elo(RA, RB, home_advantage) ==
  LET RA_adj == RA + home_advantage
      EA == Expected(RA_adj, RB)
      EB == Unit - EA
  IN <<EA, EB>>

\* new_elo(RA, RB, EA, EB, K, SA, SB): <<RA_new, RB_new>>
new_elo(RA, RB, EA, EB, K, SA, SB) ==
  LET RA_new == RA + K * (SA - EA)
      RB_new == RB + K * (SB - EB)
  IN <<RA_new, RB_new>>

\* determine_scores with the draw counted as a home win (>= for >)
determine_scores_ge(home_goals, away_goals) ==
  IF home_goals >= away_goals THEN <<Unit, 0>>
  ELSE IF home_goals < away_goals THEN <<0, Unit>>
  ELSE <<Unit \div 2, Unit \div 2>>

\* determine_scores(home_goals, away_goals): <<SA, SB>> in thousandths
determine_scores(home_goals, away_goals) ==
  IF home_goals > away_goals THEN <<Unit, 0>>
  ELSE IF home_goals < away_goals THEN <<0, Unit>>
  ELSE <<Unit \div 2, Unit \div 2>>

\* get_prior_season(season_str).  A season label is the sequence of the
\* numbers between its '/' separators: "2019/2020" is <<2019, 2020>> and
\* "2020" is <<2020>>, for which years[1] raises and None is returned.
get_prior_season(season_str) ==
  IF Len(season_str) >= 2
  THEN <<season_str[1] - 1, season_str[2] - 1>>
  ELSE NoSeason

(***************************************************************************)
(* Inputs: league configurations, the matches collection, the snapshot     *)
(***************************************************************************)
S1920 == <<2019, 2020>>
S2021 == <<2020, 2021>>
S2122 == <<2021, 2022>>
S20 == <<2020>>

\* dict(zip(keys, values))
Dict(keys, values) ==
  [k \in Range(keys) |-> values[CHOOSE i \in 1..Len(keys) : keys[i] = k]]

\* One league configuration (a YAML file): its competition_ids maps each
\* season label to the competition id of that league in that season.
LeagueConfig(name, labels, ids) ==
  [league |-> name, competition_ids |-> Dict(labels, ids)]

\* The configuration sets a run is started with (load_league_configs).
ConfigSets ==
  { <<LeagueConfig(1, <<S1920, S2122>>, <<11, 13>>)>>,
    <<LeagueConfig(1, <<S1920, S20, S2021>>, <<11, 14, 12>>)>>,
    <<LeagueConfig(1, <<S1920, S2021>>, <<11, 12>>),
      LeagueConfig(2, <<S1920>>, <<21>>)>> }

\* the competition ids a configuration set names
CompetitionIds(cfgs) ==
  UNION {{cfgs[i].competition_ids[s] : s \in DOMAIN cfgs[i].competition_ids}
         : i \in 1..Len(cfgs)}

\* "a" < "b" of two season labels as Python compares the strings: year by
\* year, a label that is a proper prefix of another coming first
RECURSIVE LabelLess(_, _)
LabelLess(a, b) ==
  IF a = <<>> THEN b # <<>>
  ELSE IF b = <<>> THEN FALSE
  ELSE IF Head(a) # Head(b) THEN Head(a) < Head(b)
  ELSE LabelLess(Tail(a), Tail(b))

\* sorted(labels) of a set of season labels
SortedLabels(labels) ==
  CHOOSE s \in [1..Cardinality(labels) -> labels] :
    /\ Range(s) = labels
    /\ \A i, j \in 1..Cardinality(labels) : i < j => LabelLess(s[i], s[j])

\* competitions_by_season as main builds it from the configurations: each
\* season label to the list of competition ids, in configuration order
RECURSIVE CompetitionsOf(_, _)
CompetitionsOf(cfgs, season) ==
  IF cfgs = <<>> THEN <<>>
  ELSE (IF season \in DOMAIN Head(cfgs).competition_ids
        THEN <<Head(cfgs).competition_ids[season]>> ELSE <<>>)
       \o CompetitionsOf(Tail(cfgs), season)

CompetitionsBySeason(cfgs) ==
  LET labels == UNION {DOMAIN cfgs[i].competition_ids : i \in 1..Len(cfgs)}
  IN [s \in labels |-> CompetitionsOf(cfgs, s)]

\* competition_info[comp_id]['league_name']: the league of a competition id
LeagueOf(cfgs, comp_id) ==
  LET i == CHOOSE j \in 1..Len(cfgs) :
             \E s \in DOMAIN cfgs[j].competition_ids :
               cfgs[j].competition_ids[s] = comp_id
  IN cfgs[i].league

\* competition_info[comp_id]['season']
SeasonOf(cfgs, comp_id) ==
  CHOOSE s \in UNION {DOMAIN cfgs[i].competition_ids : i \in 1..Len(cfgs)} :
    \E j \in 1..Len(cfgs) :
      s \in DOMAIN cfgs[j].competition_ids
      /\ cfgs[j].competition_ids[s] = comp_id

\* A document of the matches collection.  The derived fields are Absent
\* until the updater writes them.
MatchDoc(id, comp, date, home, away, hg, ag) ==
  [id |-> id, competition_id |-> comp, date_unix |-> date,
   homeID |-> home, awayID |-> away,
   homeGoalCount |-> hg, awayGoalCount |-> ag,
   home_elo_pre_match |-> Absent, home_elo_pre_match_HA |-> Absent,
   away_elo_pre_match |-> Absent, away_elo_pre_match_HA |-> Absent,
   BTTS |-> Absent]

(***************************************************************************)
(* State                                                                   *)
(***************************************************************************)
VARIABLES
  configs,                  \* the league configurations of the run
  db,                       \* the matches collection, in natural order
  ratings_file,             \* elo_ratings.joblib: [exists, data]
  pc,                       \* where main is
  competitions_by_season,   \* season label -> competition ids
  seasons,                  \* the seasons still to process, sorted
  season,                   \* the season being processed
  elo_ratings,              \* the rating store: team id -> rating
  prior_season_standings,   \* season label -> standings of that season
  prior_season_teams,       \* current_season_team_ids of the last season
  matches,                  \* the retrieved matches of the season
  current_season_team_ids,
  new_teams,                \* the new teams not yet assigned
  midx,                     \* index in matches of the next match
  loc,                      \* the locals of the last iteration of a loop
  log,                      \* what the last step logged
  faults                    \* persistence failures so far

vars ==
  <<configs, db, ratings_file, pc, competitions_by_season, seasons, season,
    elo_ratings, prior_season_standings, prior_season_teams, matches,
    current_season_team_ids, new_teams, midx, loc, log, faults>>

\* a log record
LogEntry(level, event, subject) ==
  [level |-> level, event |-> event, subject |-> subject]

\* the locals before any loop has run
NoLoc == [op |-> "none"]

(***************************************************************************)
(* Match Rating Updater: one iteration of "for match in matches"           *)
(***************************************************************************)
\* the checks of lines 262-297 without the test of the two team ids
SkipReason_noTeams(match) ==
  IF IsNone(match.id) THEN "no_id"
  ELSE IF IntFails(match.id) THEN "bad_id"
  ELSE IF IsNone(match.homeGoalCount) \/ IsNone(match.awayGoalCount)
       THEN "missing_fields"
  ELSE IF IntFails(match.homeGoalCount) \/ IntFails(match.awayGoalCount)
       THEN "invalid_goals"
  ELSE ""

\* why the iteration skips the match ("" when it does not): lines 261-297
SkipReason(match) ==
  IF IsNone(match.id) THEN "no_id"
  ELSE IF IntFails(match.id) THEN "bad_id"
  ELSE IF \/ IsNone(match.homeID) \/ IsNone(match.awayID)
          \/ IsNone(match.homeGoalCount) \/ IsNone(match.awayGoalCount)
       THEN "missing_fields"
  ELSE IF IntFails(match.homeGoalCount) \/ IntFails(match.awayGoalCount)
       THEN "invalid_goals"
  ELSE ""

\* the locals of an update in which the away side's expectation is taken
\* against the home side's already updated rating
UpdateLocals_seq(elo, match) ==
  LET home_id == match.homeID
      away_id == match.awayID
      home_goals_int == match.homeGoalCount
      away_goals_int == match.awayGoalCount
      btts == IF home_goals_int > 0 /\ away_goals_int > 0 THEN 1 ELSE 0
      RA_before == DictGet(elo, home_id, INITIAL_ELO)
      RB_before == DictGet(elo, away_id, INITIAL_ELO)
      E == get_elo(RA_before, RB_before, HOME_ADVANTAGE)
      S == determine_scores(home_goals_int, away_goals_int)
      RA_after == RA_before + K_FACTOR * (S[1] - E[1])
      EB_seq == get_elo(RA_after, RB_before, HOME_ADVANTAGE)[2]
  IN [op |-> "update", match_id |-> match.id,
      home_id |-> home_id, away_id |-> away_id, btts |-> btts,
      RA_before |-> RA_before, RB_before |-> RB_before,
      RA_before_HA |-> RA_before + HOME_ADVANTAGE, RB_before_HA |-> RB_before,
      EA |-> E[1], EB |-> EB_seq, SA |-> S[1], SB |-> S[2],
      RA_after |-> RA_after,
      RB_after |-> RB_before + K_FACTOR * (S[2] - EB_seq)]

\* the locals of an iteration that updates the ratings: lines 299-314
UpdateLocals(elo, match) ==
  LET home_id == match.homeID
      away_id == match.awayID
      home_goals_int == match.homeGoalCount
      away_goals_int == match.awayGoalCount
      btts == IF home_goals_int > 0 /\ away_goals_int > 0 THEN 1 ELSE 0
      RA_before == DictGet(elo, home_id, INITIAL_ELO)
      RB_before == DictGet(elo, away_id, INITIAL_ELO)
      RA_before_HA == RA_before + HOME_ADVANTAGE
      RB_before_HA == RB_before
      E == get_elo(RA_before, RB_before, HOME_ADVANTAGE)
      S == determine_scores(home_goals_int, away_goals_int)
      R == new_elo(RA_before, RB_before, E[1], E[2], K_FACTOR, S[1], S[2])
  IN [op |-> "update", match_id |-> match.id,
      home_id |-> home_id, away_id |-> away_id, btts |-> btts,
      RA_before |-> RA_before, RB_before |-> RB_before,
      RA_before_HA |-> RA_before_HA, RB_before_HA |-> RB_before_HA,
      EA |-> E[1], EB |-> E[2], SA |-> S[1], SB |-> S[2],
      RA_after |-> R[1], RB_after |-> R[2]]

\* elo_ratings[home_id] = RA_after; elo_ratings[away_id] = RB_after
StoreRatings(elo, l) ==
  DictSet(DictSet(elo, l.home_id, l.RA_after), l.away_id, l.RB_after)

\* the update written to the first document that has no pre-match rating
\* yet, whatever its id
UpdateOne_first(coll, l) ==
  IF \A i \in 1..Len(coll) : coll[i].home_elo_pre_match # Absent THEN coll
  ELSE LET k == CHOOSE i \in 1..Len(coll) :
                  /\ coll[i].home_elo_pre_match = Absent
                  /\ \A j \in 1..(i - 1) : coll[j].home_elo_pre_match # Absent
       IN [coll EXCEPT ![k] =
             [@ EXCEPT !.home_elo_pre_match = l.RA_before,
                       !.home_elo_pre_match_HA = l.RA_before_HA,
                       !.away_elo_pre_match = l.RB_before,
                       !.away_elo_pre_match_HA = l.RB_before_HA,
                       !.BTTS = l.btts]]

\* matches_collection.update_one({"id": match_id}, {"$set": {...}}): the
\* first document with that id gets the five derived fields
UpdateOne(coll, l) ==
  IF \A i \in 1..Len(coll) : coll[i].id # l.match_id THEN coll
  ELSE LET k == CHOOSE i \in 1..Len(coll) :
                  /\ coll[i].id = l.match_id
                  /\ \A j \in 1..(i - 1) : coll[j].id # l.match_id
       IN [coll EXCEPT ![k] =
             [@ EXCEPT !.home_elo_pre_match = l.RA_before,
                       !.home_elo_pre_match_HA = l.RA_before_HA,
                       !.away_elo_pre_match = l.RB_before,
                       !.away_elo_pre_match_HA = l.RB_before_HA,
                       !.BTTS = l.btts]]

(***************************************************************************)
(* Season Continuity Resolver: one iteration of "for team_id in new_teams" *)
(***************************************************************************)
\* current_season_team_ids: the truthy home and away ids of the matches
CollectTeamIds(ms) ==
  {ms[i].homeID : i \in {j \in 1..Len(ms) : Truthy(ms[j].homeID)}}
  \cup {ms[i].awayID : i \in {j \in 1..Len(ms) : Truthy(ms[j].awayID)}}

\* new_teams taken to be every team of the season
NewTeams_all(current, prior) == current

\* new_teams = current_season_team_ids - prior_season_teams
NewTeams(current, prior) == current \ prior

\* mean_bottom_3 = sum(bottom_3_elos.values()) / len(bottom_3_elos), to the
\* thousandth of a point
MeanOf(elos) == SumValues(elos) \div Cardinality(DOMAIN elos)

\* the branch of lines 234-257 that assigns the team its rating
AssignBranch(standings, season_str, team_id) ==
  LET prior_season == get_prior_season(season_str)
  IN IF prior_season # NoSeason /\ prior_season \in DOMAIN standings
     THEN IF team_id \in Range(standings[prior_season].teams)
          THEN "continues"
          ELSE IF DOMAIN standings[prior_season].bottom_3_elos # {}
               THEN "mean_bottom_3"
               ELSE "initial_no_bottom_3"
     ELSE "initial_no_prior"

\* the rating lines 234-257 assign to a new team
AssignedElo(elo, standings, season_str, team_id) ==
  LET branch == AssignBranch(standings, season_str, team_id)
  IN IF branch = "continues" THEN DictGet(elo, team_id, INITIAL_ELO)
     ELSE IF branch = "mean_bottom_3"
          THEN MeanOf(standings[get_prior_season(season_str)].bottom_3_elos)
          ELSE INITIAL_ELO

(***************************************************************************)
(* Standings Aggregator: lines 341-374                                     *)
(***************************************************************************)
\* int(match.get(field, 0)) of a goal count
GoalsOrZero(v) == IF v = Absent THEN 0 ELSE v

\* int(match.get(field, 0)) raises for some match of the season
StandingsRaise(ms) ==
  \E i \in 1..Len(ms) :
    IntFails(ms[i].homeGoalCount) \/ IntFails(ms[i].awayGoalCount)

\* team_points as a list of <<team id, points>> in insertion order
AddTeam(tp, tid) ==
  IF \E i \in 1..Len(tp) : tp[i][1] = tid THEN tp ELSE Append(tp, <<tid, 0>>)

AddPoints(tp, tid, n) ==
  [i \in 1..Len(tp) |-> IF tp[i][1] = tid THEN <<tid, tp[i][2] + n>> ELSE tp[i]]

RECURSIVE TeamPoints(_, _)
TeamPoints(ms, tp) ==
  IF ms = <<>> THEN tp
  ELSE LET match == Head(ms)
           home_id == match.homeID
           away_id == match.awayID
           home_goals == GoalsOrZero(match.homeGoalCount)
           away_goals == GoalsOrZero(match.awayGoalCount)
           tp1 == AddTeam(AddTeam(tp, home_id), away_id)
           tp2 == IF home_goals > away_goals THEN AddPoints(tp1, home_id, 3)
                  ELSE IF home_goals < away_goals
                       THEN AddPoints(tp1, away_id, 3)
                       ELSE AddPoints(AddPoints(tp1, home_id, 1), away_id, 1)
       IN TeamPoints(Tail(ms), tp2)

\* a sort by points that puts the later of two tied teams first
SortedTeams_reversed(tp) ==
  LET n == Len(tp)
      rank(i) == 1 + Cardinality({j \in 1..n : tp[j][2] > tp[i][2]})
                   + Cardinality({j \in (i + 1)..n : tp[j][2] = tp[i][2]})
  IN [r \in 1..n |-> tp[CHOOSE i \in 1..n : rank(i) = r][1]]

\* sorted(team_points.items(), key=points, reverse=True), ids only: a stable
\* sort, so ties keep their insertion order
SortedTeams(tp) ==
  LET n == Len(tp)
      rank(i) == 1 + Cardinality({j \in 1..n : tp[j][2] > tp[i][2]})
                   + Cardinality({j \in 1..(i - 1) : tp[j][2] = tp[i][2]})
  IN [r \in 1..n |-> tp[CHOOSE i \in 1..n : rank(i) = r][1]]

\* team_ids[:3]
Top3(team_ids) ==
  SubSeq(team_ids, 1, IF Len(team_ids) < 3 THEN Len(team_ids) ELSE 3)

\* team_ids[-3:]
Bottom3(team_ids) ==
  SubSeq(team_ids, IF Len(team_ids) < 3 THEN 1 ELSE Len(team_ids) - 2,
         Len(team_ids))

\* {tid: elo_ratings.get(tid, INITIAL_ELO) for tid in teams}
EloSnapshot(elo, teams) ==
  [tid \in Range(teams) |-> DictGet(elo, tid, INITIAL_ELO)]

\* season_standings of a season whose matches are ms
SeasonStandings(elo, season_str, ms) ==
  LET team_ids == SortedTeams(TeamPoints(ms, <<>>))
  IN [season |-> season_str, teams |-> team_ids,
      top_3_elos |-> EloSnapshot(elo, Top3(team_ids)),
      bottom_3_elos |-> EloSnapshot(elo, Bottom3(team_ids))]

(***************************************************************************)
(* The match corpus                                                        *)
(*                                                                         *)
(* The documents of a season's competitions are in the collection before   *)
(* the run starts and no step of the run inserts or deletes one.  A run    *)
(* reads the documents of a competition once, in the retrieval of its      *)
(* season, so the model draws them there: db holds the documents read so   *)
(* far, with the derived fields the run has written on them.               *)
(***************************************************************************)
\* the number of fields of a document that hold no proper value: a team id
\* that is None or 0, a goal count that is no number, and a home team that
\* is also the away team.  Every document has a numeric id: the acquisition
\* scripts store a match only under its id.
OddFields(m) ==
  (IF Truthy(m.homeID) THEN 0 ELSE 1)
  + (IF Truthy(m.awayID) THEN 0 ELSE 1)
  + (IF m.homeGoalCount \in 0..MaxGoals THEN 0 ELSE 1)
  + (IF m.awayGoalCount \in 0..MaxGoals THEN 0 ELSE 1)
  + (IF Truthy(m.homeID) /\ m.homeID = m.awayID THEN 1 ELSE 0)

RECURSIVE CorpusSize(_)
\* the size of a corpus: its documents plus their improper fields
CorpusSize(coll) ==
  IF coll = <<>> THEN 0
  ELSE 1 + OddFields(Head(coll)) + CorpusSize(Tail(coll))

\* the largest team id of a corpus (0 when it has none)
MaxTeamOf(coll) ==
  LET ids == {0} \cup {coll[i].homeID : i \in 1..Len(coll)}
                 \cup {coll[i].awayID : i \in 1..Len(coll)}
  IN CHOOSE x \in ids : \A y \in ids : y <= x

\* The documents that may follow the corpus coll in the competitions comps,
\* within the size bound.  Team ids are interchangeable names, so a team
\* that appears for the first time takes the next unused id; documents are
\* dated in their order; a match with both goal counts has a goal.
NextDocs(coll, comps) ==
  LET spare == MaxSize - CorpusSize(coll) - 1
      known == MaxTeamOf(coll)
      upto(n) == 1..(IF n < MaxTeam THEN n ELSE MaxTeam)
      odd(S) == IF spare > 0 THEN S ELSE {}
      homes == odd({Null, 0}) \cup upto(known + 1)
      aways(h) == odd({Null, 0}) \cup upto((IF h > known THEN h ELSE known) + 1)
      goals == odd({Absent, Null, BadInt}) \cup (0..MaxGoals)
      docs == UNION {{MatchDoc(Len(coll) + 1, comp, Len(coll) + 1,
                                 home, away, hg, ag) :
                        comp \in Range(comps),
                        away \in aways(home), hg \in goals, ag \in goals}
                     : home \in homes}
  IN IF spare < 0 THEN {}
     ELSE {m \in docs : /\ OddFields(m) <= spare
                        /\ m.homeGoalCount = 0 => m.awayGoalCount # 0}

RECURSIVE SeasonDocs(_, _, _)
\* the lists of documents a season's competitions may hold, given the
\* corpus coll of the earlier seasons; n bounds the length
SeasonDocs(coll, comps, n) ==
  IF n = 0 THEN {<<>>}
  ELSE {<<>>} \cup
       UNION {{<<m>> \o rest : rest \in SeasonDocs(Append(coll, m), comps, n - 1)}
              : m \in NextDocs(coll, comps)}

(***************************************************************************)
(* The matches collection and the snapshot file                            *)
(***************************************************************************)
\* find({"competition_id": {"$in": ids}}).sort("date_unix", 1): the
\* documents of these competitions by ascending date; the order of
\* documents of equal date is the database's choice
Retrievals(coll, ids) ==
  LET hit == {i \in 1..Len(coll) : coll[i].competition_id \in Range(ids)}
      n == Cardinality(hit)
      orders == {o \in [1..n -> hit] :
                   /\ \A a, b \in 1..n : a # b => o[a] # o[b]
                   /\ \A a, b \in 1..n :
                        a < b => coll[o[a]].date_unix <= coll[o[b]].date_unix}
  IN {[k \in 1..n |-> coll[o[k]]] : o \in orders}

\* a persistence operation may fail while the failure budget lasts
Outcomes == IF faults < MaxFaults THEN {TRUE, FALSE} ELSE {TRUE}

Fault(ok) == IF ok THEN faults ELSE faults + 1

\* the match loop entered as soon as there is a match, the new teams
\* still pending
AfterAssign_early(pending, ms) ==
  IF ms # <<>> THEN "matches"
  ELSE IF pending # {} THEN "assign" ELSE "standings"

\* where the season goes after the new teams are assigned
AfterAssign(pending, ms) ==
  IF pending # {} THEN "assign"
  ELSE IF ms = <<>> THEN "standings" ELSE "matches"

(***************************************************************************)
(* Actions: the steps of main                                              *)
(***************************************************************************)
\* lines 111-134: build competitions_by_season from the configurations
CollectCompetitions ==
  /\ pc = "start"
  /\ competitions_by_season' = CompetitionsBySeason(configs)
  /\ pc' = "load"
  /\ log' = <<>>
  /\ UNCHANGED <<configs, db, ratings_file, seasons, season, elo_ratings,
                 prior_season_standings, prior_season_teams, matches,
                 current_season_team_ids, new_teams, midx, loc, faults>>

\* lines 174-201: load or initialise the ratings, sort the seasons
LoadRatings ==
  /\ pc = "load"
  /\ \E ok \in (IF ratings_file.exists THEN Outcomes ELSE {TRUE}) :
       /\ elo_ratings' = IF ratings_file.exists /\ ok
                         THEN ratings_file.data ELSE EmptyDict
       /\ log' = IF ok THEN <<>>
                 ELSE <<LogEntry("error", "load_failed", Null)>>
       /\ faults' = Fault(ok)
  /\ prior_season_standings' = EmptyDict
  /\ prior_season_teams' = {}
  /\ seasons' = SortedLabels(DOMAIN competitions_by_season)
  /\ pc' = "season"
  /\ UNCHANGED <<configs, db, ratings_file, competitions_by_season, season,
                 matches, current_season_team_ids, new_teams, midx, loc>>

\* lines 202-228: take the next season, retrieve its matches, collect its
\* team ids and identify the new teams; a failed retrieval skips the season
StartSeason ==
  /\ pc = "season"
  /\ seasons # <<>>
  /\ season' = Head(seasons)
  /\ seasons' = Tail(seasons)
  /\ \E ok \in Outcomes :
       /\ faults' = Fault(ok)
       /\ IF ok
          THEN \E docs \in SeasonDocs(db, competitions_by_season[Head(seasons)],
                                      MaxSize - CorpusSize(db)) :
               \E ms \in Retrievals(db \o docs,
                                    competitions_by_season[Head(seasons)]) :
                 /\ db' = db \o docs
                 /\ matches' = ms
                 /\ current_season_team_ids' = CollectTeamIds(ms)
                 /\ new_teams' = NewTeams(CollectTeamIds(ms), prior_season_teams)
                 /\ midx' = 1
                 /\ pc' = AfterAssign(new_teams', ms)
                 /\ log' = <<>>
          ELSE /\ log' = <<LogEntry("error", "retrieve_failed", Head(seasons))>>
               /\ pc' = "season"
               /\ UNCHANGED <<db, matches, current_season_team_ids, new_teams,
                              midx>>
  /\ UNCHANGED <<configs, ratings_file, competitions_by_season,
                 elo_ratings, prior_season_standings, prior_season_teams, loc>>

\* lines 231-257: one iteration of the loop over new_teams (a set: the
\* order of iteration is Python's choice)
AssignNewTeam ==
  /\ pc = "assign"
  /\ \E team_id \in new_teams :
       /\ elo_ratings' = DictSet(elo_ratings, team_id,
                                 AssignedElo(elo_ratings, prior_season_standings,
                                             season, team_id))
       /\ loc' = [op |-> "assign", team_id |-> team_id,
                  branch |-> AssignBranch(prior_season_standings, season, team_id)]
       /\ new_teams' = new_teams \ {team_id}
       /\ pc' = AfterAssign(new_teams', matches)
  /\ log' = <<>>
  /\ UNCHANGED <<configs, db, ratings_file, competitions_by_season, seasons,
                 season, prior_season_standings, prior_season_teams, matches,
                 current_season_team_ids, midx, faults>>

\* lines 260-339: one iteration of the loop over matches
ProcessMatch ==
  /\ pc = "matches"
  /\ LET match == matches[midx]
         reason == SkipReason(match)
     IN IF reason # ""
        THEN /\ loc' = [op |-> "skip", match_id |-> match.id, reason |-> reason]
             /\ log' = <<LogEntry("warning", reason,
                                  IF reason = "no_id" THEN Null ELSE match.id)>>
             /\ UNCHANGED <<elo_ratings, db, faults>>
        ELSE \E ok \in Outcomes :
               LET l == UpdateLocals(elo_ratings, match)
               IN /\ elo_ratings' = StoreRatings(elo_ratings, l)
                  /\ db' = IF ok THEN UpdateOne(db, l) ELSE db
                  /\ loc' = l
                  /\ log' = IF ok THEN <<LogEntry("info", "inserted", match.id),
                                         LogEntry("info", "updated", match.id)>>
                            ELSE <<LogEntry("error", "write_failed", match.id)>>
                  /\ faults' = Fault(ok)
  /\ midx' = midx + 1
  /\ pc' = IF midx = Len(matches) THEN "standings" ELSE "matches"
  /\ UNCHANGED <<configs, ratings_file, competitions_by_season, seasons,
                 season, prior_season_standings, prior_season_teams, matches,
                 current_season_team_ids, new_teams>>

\* lines 341-388: the standings of the season and the state of the next
\* one; an int() that raises ends the run (line 400)
EndSeason ==
  /\ pc = "standings"
  /\ IF StandingsRaise(matches)
     THEN /\ pc' = "crashed"
          /\ log' = <<LogEntry("error", "unexpected", season)>>
          /\ UNCHANGED <<prior_season_standings, prior_season_teams>>
     ELSE /\ prior_season_standings' =
               DictSet(prior_season_standings, season,
                       SeasonStandings(elo_ratings, season, matches))
          /\ prior_season_teams' = current_season_team_ids
          /\ pc' = "season"
          /\ log' = <<>>
  /\ UNCHANGED <<configs, db, ratings_file, competitions_by_season, seasons,
                 season, elo_ratings, matches, current_season_team_ids,
                 new_teams, midx, loc, faults>>

\* lines 390-398: save the ratings
SaveRatings ==
  /\ pc = "season"
  /\ seasons = <<>>
  /\ \E ok \in Outcomes :
       /\ ratings_file' = IF ok THEN [exists |-> TRUE, data |-> elo_ratings]
                          ELSE ratings_file
       /\ log' = IF ok THEN <<>>
                 ELSE <<LogEntry("error", "save_failed", Null)>>
       /\ faults' = Fault(ok)
  /\ pc' = "done"
  /\ UNCHANGED <<configs, db, competitions_by_season, seasons, season,
                 elo_ratings, prior_season_standings, prior_season_teams,
                 matches, current_season_team_ids, new_teams, midx, loc>>

Next ==
  \/ CollectCompetitions
  \/ LoadRatings
  \/ StartSeason
  \/ AssignNewTeam
  \/ ProcessMatch
  \/ EndSeason
  \/ SaveRatings

(***************************************************************************)
(* Initial states: the inputs of a run                                     *)
(***************************************************************************)
\* the snapshot an earlier run left in elo_ratings.joblib
Snapshot == [t \in 0..MaxTeam |-> (1400 + 100 * t) * Unit]

Init ==
  /\ configs \in ConfigSets
  /\ db = <<>>
  /\ ratings_file \in {[exists |-> FALSE, data |-> EmptyDict],
                       [exists |-> TRUE, data |-> Snapshot]}
  /\ pc = "start"
  /\ competitions_by_season = EmptyDict
  /\ seasons = <<>>
  /\ season = NoSeason
  /\ elo_ratings = EmptyDict
  /\ prior_season_standings = EmptyDict
  /\ prior_season_teams = {}
  /\ matches = <<>>
  /\ current_season_team_ids = {}
  /\ new_teams = {}
  /\ midx = 1
  /\ loc = NoLoc
  /\ log = <<>>
  /\ faults = 0

Spec == Init /\ [][Next]_vars

(***************************************************************************)
(* The outcome model applied to every pair of goal counts                  *)
(***************************************************************************)
\* goal counts of the pairs determine_scores is applied to: 0..MaxScoreGoals
MaxScoreGoals == 9

\* a call of determine_scores on some pair of goal counts
ScoreCall ==
  /\ \E h \in 0..MaxScoreGoals, a \in 0..MaxScoreGoals :
       loc' = [op |-> "scores", home_goals |-> h, away_goals |-> a,
               SA |-> determine_scores(h, a)[1],
               SB |-> determine_scores(h, a)[2]]
  /\ UNCHANGED <<configs, db, ratings_file, pc, competitions_by_season,
                 seasons, season, elo_ratings, prior_season_standings,
                 prior_season_teams, matches, current_season_team_ids,
                 new_teams, midx, log, faults>>

SpecScores == Init /\ [][ScoreCall]_vars

(***************************************************************************)
(* Claims                                                                  *)
(***************************************************************************)
\* C3: for every pair of goal counts (h, a), determine_scores returns (1, 0)
\* when h > a, (0, 1) when h < a and (0.5, 0.5) when h = a, and the two
\* scores sum to 1 (scores in thousandths)
C3_Scores ==
  loc.op = "scores" =>
    /\ loc.home_goals > loc.away_goals => loc.SA = Unit /\ loc.SB = 0
    /\ loc.home_goals < loc.away_goals => loc.SA = 0 /\ loc.SB = Unit
    /\ loc.home_goals = loc.away_goals => 2 * loc.SA = Unit /\ 2 * loc.SB = Unit
    /\ loc.SA + loc.SB = Unit

\* a draw with goals has been scored
C3_Witness ==
  loc.op = "scores" /\ loc.home_goals = loc.away_goals /\ loc.home_goals > 0
  /\ loc.SA = loc.SB

\* the rating the store holds for a team, a team without an entry counting
\* with the default the updater reads for it
RatingOf(elo, team_id) == DictGet(elo, team_id, INITIAL_ELO)

\* the step processes a match and updates the ratings with it
UpdateStep == pc = "matches" /\ loc'.op = "update"

\* C1: for every processed match between distinct teams the two rating
\* changes are opposite (RA_after - RA_before = -(RB_after - RB_before)) and
\* the sum of all ratings in the store is the same before and after
C1_ZeroSum ==
  [][(UpdateStep /\ loc'.home_id # loc'.away_id) =>
       /\ loc'.RA_after - loc'.RA_before = -(loc'.RB_after - loc'.RB_before)
       /\ SumValues(elo_ratings') = SumValues(elo_ratings)]_vars

\* the ratings a match must leave in the store: R' = R + K * (S - E), both
\* sides from the ratings before the match, the home advantage in the
\* expectation only
EloRule(m) ==
  LET Rh == RatingOf(elo_ratings, m.homeID)
      Ra == RatingOf(elo_ratings, m.awayID)
      Eh == Expected(Rh + HOME_ADVANTAGE, Ra)
      Ea == Unit - Eh
      Sh == IF m.homeGoalCount > m.awayGoalCount THEN Unit
            ELSE IF m.homeGoalCount < m.awayGoalCount THEN 0
            ELSE Unit \div 2
      Sa == Unit - Sh
  IN /\ m.homeID \in DOMAIN elo_ratings'
     /\ m.awayID \in DOMAIN elo_ratings'
     /\ elo_ratings'[m.homeID] = Rh + K_FACTOR * (Sh - Eh)
     /\ elo_ratings'[m.awayID] = Ra + K_FACTOR * (Sa - Ea)

\* C2 as stated: for every processed match, each side's stored rating
\* becomes R + K * (S - E) with R, S, E of that side taken before the match
C2_Original ==
  [][UpdateStep => EloRule(matches[midx])]_vars

\* C2: for every processed match between two distinct teams, each side's
\* stored rating becomes R + K * (S - E), the expectations of both sides
\* computed from the ratings before the match and the home advantage added
\* to the home rating in the expectation only
C2_EloRule ==
  [][(UpdateStep /\ matches[midx].homeID # matches[midx].awayID) =>
       EloRule(matches[midx])]_vars

\* a match between distinct teams with different ratings has been applied
C2_Witness ==
  /\ loc.op = "update"
  /\ loc.home_id # loc.away_id
  /\ loc.RA_before # loc.RB_before
  /\ loc.RA_before # INITIAL_ELO
  /\ pc \in {"matches", "standings"}
  /\ elo_ratings[loc.home_id] = loc.RA_after
  /\ elo_ratings[loc.away_id] = loc.RB_after

\* a field of a match document that is missing or null
Missing(v) == v = Absent \/ v = Null

\* a match document that lacks a team identifier or a goal count
MissingEssential(m) ==
  \/ Missing(m.homeID) \/ Missing(m.awayID)
  \/ Missing(m.homeGoalCount) \/ Missing(m.awayGoalCount)

\* C4: a match missing a team identifier or a goal count is skipped: its
\* step changes no rating, writes no derived field to any match document
\* and logs a warning that names the match
C4_Skip ==
  [][(pc = "matches" /\ MissingEssential(matches[midx])) =>
       /\ elo_ratings' = elo_ratings
       /\ db' = db
       /\ \E i \in DOMAIN log' :
            log'[i].level = "warning" /\ log'[i].subject = matches[midx].id]_vars

\* a match without an essential field has been skipped after ratings were
\* assigned, its document still without derived fields
C4_Witness ==
  /\ loc.op = "skip"
  /\ loc.reason = "missing_fields"
  /\ elo_ratings # EmptyDict
  /\ \E i \in DOMAIN log :
       log[i].level = "warning" /\ log[i].subject = loc.match_id
  /\ \E i \in DOMAIN db :
       /\ db[i].id = loc.match_id
       /\ MissingEssential(db[i])
       /\ db[i].home_elo_pre_match = Absent
       /\ db[i].BTTS = Absent

\* the document of the collection with the given id
DocOf(coll, id) == coll[CHOOSE i \in DOMAIN coll : coll[i].id = id]

\* C5: every match the updater applies has its pre-match fields written:
\* the recorded pre-match ratings are the store's values immediately before
\* the update, the recorded adjusted home rating is the raw one plus the
\* home advantage and the recorded adjusted away rating is the raw one
C5_Recorded ==
  [][UpdateStep =>
       LET m == matches[midx]
           d == DocOf(db', m.id)
       IN /\ d.home_elo_pre_match = RatingOf(elo_ratings, m.homeID)
          /\ d.away_elo_pre_match = RatingOf(elo_ratings, m.awayID)
          /\ d.home_elo_pre_match_HA = d.home_elo_pre_match + HOME_ADVANTAGE
          /\ d.away_elo_pre_match_HA = d.away_elo_pre_match]_vars

\* the teams that have a match among ms
TeamsOf(ms) ==
  ({ms[i].homeID : i \in DOMAIN ms} \cup {ms[i].awayID : i \in DOMAIN ms})
  \ {Absent, Null}

\* the documents read so far that belong to the season of the given label
DocsOfSeason(label) ==
  SelectSeq(db, LAMBDA d : SeasonOf(configs, d.competition_id) = label)

\* a season has been processed to its end
SomeProcessed == DOMAIN prior_season_standings # {}

\* the season processed last: the greatest label that has standings
LastProcessed ==
  CHOOSE s \in DOMAIN prior_season_standings :
    \A t \in DOMAIN prior_season_standings : t = s \/ LabelLess(t, s)

\* the teams with a match in the season processed last
TeamsBefore ==
  IF SomeProcessed THEN TeamsOf(DocsOfSeason(LastProcessed)) ELSE {}

\* the store holds the same for the team in this state and the next
SameRating(team_id) ==
  /\ team_id \in DOMAIN elo_ratings <=> team_id \in DOMAIN elo_ratings'
  /\ team_id \in DOMAIN elo_ratings =>
       elo_ratings'[team_id] = elo_ratings[team_id]

\* C6: a team with a match in two consecutively processed seasons starts
\* the later one with the rating it had after its last match of the earlier
\* one: no step between the last match of a season and the first match of
\* the next changes its rating (no reset, no regression to the mean)
C6_Continuity ==
  [][/\ pc = "standings" => elo_ratings' = elo_ratings
     /\ pc \in {"season", "assign"} =>
          \A t \in TeamsOf(matches') \cap TeamsBefore : SameRating(t)]_vars

\* the first match of a season is about to be processed, a new team has
\* been assigned its rating, and a team of the season before is back with
\* the rating its matches gave it
C6_Witness ==
  /\ pc = "matches" /\ midx = 1
  /\ loc.op = "assign"
  /\ \E t \in TeamsOf(matches) \cap TeamsBefore :
       /\ t > 0 /\ t # loc.team_id
       /\ t \in DOMAIN elo_ratings
       /\ elo_ratings[t] # INITIAL_ELO

\* the first match of the current season is next: every assignment of the
\* season has been made and no match of it has been processed
SeasonOpens == pc = "matches" /\ midx = 1

\* the teams entering the current season: those with a match in it and none
\* in the season processed last
Entering == TeamsOf(matches) \ TeamsBefore

\* the label of the previous season: both years of the label decremented,
\* none for a label that does not have two years
PreviousLabel ==
  IF Len(season) = 2 THEN <<season[1] - 1, season[2] - 1>> ELSE NoSeason

\* the previous season has standings
HasPrevious ==
  PreviousLabel # NoSeason /\ PreviousLabel \in DOMAIN prior_season_standings

\* x is the arithmetic mean of the ratings of the snapshot, to the
\* thousandth of a point
IsMeanOf(x, snapshot) ==
  LET n == Cardinality(DOMAIN snapshot)
  IN n * x <= SumValues(snapshot) /\ SumValues(snapshot) < n * x + n

\* C7: when the previous season has standings, a team entering the season
\* that is absent from those standings starts the season with the mean of
\* the bottom-3 rating snapshot of the previous season, whatever rating the
\* store held for it
C7_MeanBottom ==
  (SeasonOpens /\ HasPrevious) =>
    \A t \in Entering :
      LET st == prior_season_standings[PreviousLabel]
      IN (t \notin Range(st.teams) /\ DOMAIN st.bottom_3_elos # {}) =>
           IsMeanOf(RatingOf(elo_ratings, t), st.bottom_3_elos)

\* C8: a team entering a season starts it with the initial rating 1500 when
\* no standings exist for the previous season, the previous season being
\* the label with both years decremented and a label that cannot be parsed
\* having no previous season
C8_Initial ==
  (SeasonOpens /\ ~HasPrevious) =>
    \A t \in Entering : RatingOf(elo_ratings, t) = INITIAL_ELO

\* the competition of the same league in the previous season, 0 when the
\* league has none
PreviousCompetition(comp_id) ==
  LET lg == CHOOSE i \in DOMAIN configs :
              \E s \in DOMAIN configs[i].competition_ids :
                configs[i].competition_ids[s] = comp_id
  IN IF PreviousLabel \in DOMAIN configs[lg].competition_ids
     THEN configs[lg].competition_ids[PreviousLabel] ELSE 0

\* the teams with a match of the given competition
TeamsOfCompetition(comp_id) ==
  TeamsOf(SelectSeq(db, LAMBDA d : d.competition_id = comp_id))

\* C9: the standings consulted for a new team are those of the previous
\* season of the competition the team is entering: the team list and the
\* bottom-3 snapshot used for it hold only teams that played in that
\* competition's previous season
C9_SameCompetition ==
  (loc.op = "assign" /\ loc.branch \in {"continues", "mean_bottom_3"}) =>
    LET st == prior_season_standings[PreviousLabel]
    IN \A i \in DOMAIN matches :
         loc.team_id \in {matches[i].homeID, matches[i].awayID} =>
           LET played ==
                 TeamsOfCompetition(PreviousCompetition(matches[i].competition_id))
           IN /\ Range(st.teams) \ {Absent, Null} \subseteq played
              /\ DOMAIN st.bottom_3_elos \ {Absent, Null} \subseteq played

\* C10: within a season every new-team assignment is made before the first
\* match of the season is processed: no assignment is made once a match of
\* the season has been processed, and no match is processed while a new
\* team is still to be assigned
C10_AssignFirst ==
  /\ pc = "assign" => midx = 1 /\ new_teams # {}
  /\ pc = "matches" => new_teams = {}
  /\ midx > 1 => new_teams = {}

\* both teams of the first match of a season have been assigned and the
\* match is the next step
C10_Witness ==
  /\ SeasonOpens
  /\ loc.op = "assign"
  /\ Cardinality(current_season_team_ids) >= 2
  /\ current_season_team_ids \subseteq DOMAIN elo_ratings
  /\ matches[1].homeID \in current_season_team_ids
  /\ matches[1].awayID \in current_season_team_ids

(***************************************************************************)
(* Two runs of the updater over the same inputs                            *)
(*                                                                         *)
(* A run over one season, written as a function of the order in which the  *)
(* database returns the season's matches: the steps of StartSeason,        *)
(* AssignNewTeam, ProcessMatch and EndSeason, none of them failing.        *)
(***************************************************************************)
\* the documents of a corpus of the two runs: at most MaxRunDocs of them
MaxRunDocs == 2
\* their teams: 1..MaxRunTeams
MaxRunTeams == 4

\* every variable of the updater but loc
updater_vars ==
  <<configs, db, ratings_file, pc, competitions_by_season, seasons, season,
    elo_ratings, prior_season_standings, prior_season_teams, matches,
    current_season_team_ids, new_teams, midx, log, faults>>

\* the updater is not running: loc holds the state of another computation
Idle ==
  /\ configs = <<>>
  /\ db = <<>>
  /\ ratings_file = [exists |-> FALSE, data |-> EmptyDict]
  /\ pc = "idle"
  /\ competitions_by_season = EmptyDict
  /\ seasons = <<>>
  /\ season = NoSeason
  /\ elo_ratings = EmptyDict
  /\ prior_season_standings = EmptyDict
  /\ prior_season_teams = {}
  /\ matches = <<>>
  /\ current_season_team_ids = {}
  /\ new_teams = {}
  /\ midx = 1
  /\ log = <<>>
  /\ faults = 0

RECURSIVE AssignAll(_, _, _, _)
\* the loop over new_teams: lines 231-257
AssignAll(elo, standings, season_str, pending) ==
  IF pending = {} THEN elo
  ELSE LET team_id == CHOOSE t \in pending : TRUE
       IN AssignAll(DictSet(elo, team_id,
                            AssignedElo(elo, standings, season_str, team_id)),
                    standings, season_str, pending \ {team_id})

RECURSIVE ApplyMatches(_, _, _)
\* the loop over matches: lines 260-339, from the state st = [elo, coll]
ApplyMatches(st, ms, i) ==
  IF i > Len(ms) THEN st
  ELSE IF SkipReason(ms[i]) # "" THEN ApplyMatches(st, ms, i + 1)
  ELSE LET l == UpdateLocals(st.elo, ms[i])
       IN ApplyMatches([elo |-> StoreRatings(st.elo, l),
                        coll |-> UpdateOne(st.coll, l)], ms, i + 1)

\* the run of one season from the ratings elo0 over the corpus coll, the
\* database returning the season's matches in the order ms: the final
\* ratings, the corpus with the recorded pre-match ratings, the standings
RunSeason(elo0, coll, season_str, ms) ==
  LET assigned == AssignAll(elo0, EmptyDict, season_str,
                            NewTeams(CollectTeamIds(ms), {}))
      after == ApplyMatches([elo |-> assigned, coll |-> coll], ms, 1)
  IN [elo_ratings |-> after.elo,
      db |-> after.coll,
      standings |-> IF StandingsRaise(ms) THEN "crashed"
                    ELSE SeasonStandings(after.elo, season_str, ms)]

\* a document of competition 11 with proper fields, between two teams
RunDocs(id) ==
  {m \in {MatchDoc(id, 11, date, home, away, hg, ag) :
            date \in 1..MaxRunDocs, home \in 1..MaxRunTeams,
            away \in 1..MaxRunTeams, hg \in 0..MaxGoals, ag \in 0..MaxGoals} :
     m.homeID # m.awayID}

\* the two documents have a team in common
ShareTeam(m, d) == {m.homeID, m.awayID} \cap {d.homeID, d.awayID} # {}

RECURSIVE RunCorpora(_)
\* the corpora of n documents: no team has two matches at the same time
RunCorpora(n) ==
  IF n = 0 THEN {<<>>}
  ELSE UNION {{Append(c, m) :
                  m \in {d \in RunDocs(n) :
                           \A i \in 1..(n - 1) :
                             c[i].date_unix = d.date_unix => ~ShareTeam(c[i], d)}}
               : c \in RunCorpora(n - 1)}

\* two runs over the same corpus and the same snapshot, each with an order
\* of retrieval the database may choose
RunTwice ==
  /\ loc.op = "inputs"
  /\ \E ms1 \in Retrievals(loc.corpus, <<11>>),
        ms2 \in Retrievals(loc.corpus, <<11>>) :
       loc' = [op |-> "runs", corpus |-> loc.corpus, snapshot |-> loc.snapshot,
               first |-> RunSeason(loc.snapshot, loc.corpus, S1920, ms1),
               second |-> RunSeason(loc.snapshot, loc.corpus, S1920, ms2)]
  /\ UNCHANGED updater_vars

InitRuns ==
  /\ Idle
  /\ \E n \in 1..MaxRunDocs :
     \E coll \in RunCorpora(n) :
     \E snap \in {EmptyDict, Snapshot} :
       loc = [op |-> "inputs", corpus |-> coll, snapshot |-> snap]

SpecRuns == InitRuns /\ [][RunTwice]_vars

\* C11: two runs of the updater over the same configuration, the same
\* corpus and the same starting snapshot end with the same ratings, the
\* same recorded pre-match ratings and the same standings, whatever the
\* order in which the database returns matches of equal timestamp
C11_Determinism ==
  loc.op = "runs" =>
    /\ loc.first.elo_ratings = loc.second.elo_ratings
    /\ loc.first.db = loc.second.db
    /\ loc.first.standings = loc.second.standings

(***************************************************************************)
(* Gap Calibration Builder: calc-goal-per-elo-diff.py                      *)
(*                                                                         *)
(* Ratings and gaps are in thousandths of a point, bin edges in points.    *)
(* loc holds the locals of process_competitions.                           *)
(***************************************************************************)
\* config['masseys_method']['bin_size'] and ['max_gap'], in points
BinSize == 2
MaxGap == 2
\* the documents of a calibration corpus: at most MaxCalDocs
MaxCalDocs == 2
\* the competition ids a list names: at most MaxCalIds
MaxCalIds == 2
\* config['masseys_method']['batch_size']: 1..MaxBatch
MaxBatch == 2

\* the value a float or an int holds: the field is a number
IsNumber(v) == v >= 0

\* np.arange(-max_gap - bin_size, max_gap + bin_size + 1, bin_size)
BinEdges(bin_size, max_gap) ==
  LET start == -max_gap - bin_size
      stop == max_gap + bin_size + 1
      n == (stop - start + bin_size - 1) \div bin_size
  IN [k \in 1..n |-> start + (k - 1) * bin_size]

\* f"{int(bins[i])}-{int(bins[i+1]-1)}": the text of a label, held as the
\* two integers it is written from
BinLabels(bin_size, max_gap) ==
  LET bins == BinEdges(bin_size, max_gap)
  IN [i \in 1..(Len(bins) - 1) |->
        [lower |-> bins[i], upper |-> bins[i + 1] - 1]]

\* re.match(r'^(-?\d+)-', bin_str): the first integer of the label
extract_lower_bound(bin_str) == bin_str.lower

\* pd.cut(elo_gap, bins, include_lowest=True): the index of the interval
\* (bins[i], bins[i+1]] that holds the gap, the first interval holding its
\* lower edge too; 0 (NaN) for a gap outside the edges
bin_elo_gaps(elo_gap, bin_size, max_gap) ==
  LET bins == BinEdges(bin_size, max_gap)
      hit == {i \in 1..(Len(bins) - 1) :
                \/ bins[i] * Unit < elo_gap /\ elo_gap <= bins[i + 1] * Unit
                \/ i = 1 /\ elo_gap = bins[1] * Unit}
  IN IF hit = {} THEN 0 ELSE CHOOSE i \in hit : TRUE

\* compute_elo_gap(home_elo, away_elo)
compute_elo_gap(home_elo, away_elo) == home_elo - away_elo

\* the body of the try of lines 138-154 raises for the document
CalInvalid(match) ==
  \/ ~IsNumber(match.home_elo_pre_match_HA)
  \/ ~IsNumber(match.away_elo_pre_match_HA)
  \/ ~IsNumber(match.homeGoalCount)
  \/ ~IsNumber(match.awayGoalCount)

\* a builder that takes the margin from the away side
CalRow_reversed(match) ==
  [match_id |-> match.id,
   goal_diff |-> match.awayGoalCount - match.homeGoalCount,
   elo_gap |-> compute_elo_gap(match.home_elo_pre_match_HA,
                               match.away_elo_pre_match_HA)]

\* the row of data lines 139-154 append for a valid document
CalRow(match) ==
  [match_id |-> match.id,
   goal_diff |-> match.homeGoalCount - match.awayGoalCount,
   elo_gap |-> compute_elo_gap(match.home_elo_pre_match_HA,
                               match.away_elo_pre_match_HA)]

\* split_into_batches(lst, batch_size), as a list of lists
split_into_batches(lst, batch_size) ==
  [b \in 1..((Len(lst) + batch_size - 1) \div batch_size) |->
     SubSeq(lst, (b - 1) * batch_size + 1,
            IF b * batch_size < Len(lst) THEN b * batch_size ELSE Len(lst))]

\* retrieve_matches: find({"competition_id": {"$in": competition_ids}})
retrieve_matches(coll, competition_ids) ==
  SelectSeq(coll, LAMBDA d : d.competition_id \in Range(competition_ids))

\* lines 135-160: the rows of the valid documents among matches
CalData(ms) ==
  LET valid == SelectSeq(ms, LAMBDA d : ~CalInvalid(d))
  IN [i \in 1..Len(valid) |-> CalRow(valid[i])]

RECURSIVE SumSeq(_)
SumSeq(q) == IF q = <<>> THEN 0 ELSE Head(q) + SumSeq(Tail(q))

\* df.groupby('elo_gap_bin')['goal_diff'].sum() and .count() of a batch:
\* the rows of a bin, rows without a bin (NaN) in no group
BinRows(data, b, bin_size, max_gap) ==
  SelectSeq(data, LAMBDA r : bin_elo_gaps(r.elo_gap, bin_size, max_gap) = b)

\* lines 126-182: sums and counts after one batch of competition ids
CalBatchStep(acc, coll, batch, bin_size, max_gap) ==
  LET data == CalData(retrieve_matches(coll, batch))
      goal_diffs(b) == LET rows == BinRows(data, b, bin_size, max_gap)
                       IN [i \in 1..Len(rows) |-> rows[i].goal_diff]
  IN [sums |-> [b \in DOMAIN acc.sums |-> acc.sums[b] + SumSeq(goal_diffs(b))],
      counts |-> [b \in DOMAIN acc.counts |->
                    acc.counts[b] + Len(goal_diffs(b))]]

\* the greatest common divisor of two naturals, not both 0
RECURSIVE GCD(_, _)
GCD(a, b) == IF b = 0 THEN a ELSE GCD(b, a % b)

Abs(x) == IF x < 0 THEN -x ELSE x

\* the float n / d, d > 0, held as a fraction in lowest terms
Fraction(n, d) ==
  LET g == GCD(Abs(n), d) IN [num |-> n \div g, den |-> d \div g]

\* lines 189-192: total_sum / total_count, 0.0 for an empty bin
AverageOf(total_sum, total_count) ==
  IF total_count > 0 THEN Fraction(total_sum, total_count)
  ELSE [num |-> 0, den |-> 1]

\* the rows sorted by their keys, rows of equal key in their order
SortRows(rows, keys) ==
  LET n == Len(rows)
      rank(i) == 1 + Cardinality({j \in 1..n : keys[j] < keys[i]})
                   + Cardinality({j \in 1..(i - 1) : keys[j] = keys[i]})
  IN [r \in 1..n |-> rows[CHOOSE i \in 1..n : rank(i) = r]]

\* lines 184-209: the table of averages, sorted by lower bound
CalTable(acc, bin_size, max_gap) ==
  LET bin_labels == BinLabels(bin_size, max_gap)
      rows == [b \in DOMAIN bin_labels |->
                 [elo_gap_bin |-> bin_labels[b],
                  avg_goal_diff |-> AverageOf(acc.sums[b], acc.counts[b])]]
  IN SortRows(rows, [b \in DOMAIN rows |->
                      extract_lower_bound(rows[b].elo_gap_bin)])

\* lines 118-120: sums and counts start at 0
CalZero(bin_size, max_gap) ==
  [sums |-> [b \in DOMAIN BinLabels(bin_size, max_gap) |-> 0],
   counts |-> [b \in DOMAIN BinLabels(bin_size, max_gap) |-> 0]]

RECURSIVE CalFold(_, _, _, _, _, _)
\* the loop over the batches from batch number k
CalFold(acc, coll, batches, k, bin_size, max_gap) ==
  IF k > Len(batches) THEN acc
  ELSE CalFold(CalBatchStep(acc, coll, batches[k], bin_size, max_gap),
               coll, batches, k + 1, bin_size, max_gap)

\* process_competitions: the sums, the counts and the table it saves
process_competitions(coll, competition_ids, bin_size, max_gap, batch_size) ==
  LET acc == CalFold(CalZero(bin_size, max_gap), coll,
                     split_into_batches(competition_ids, batch_size), 1,
                     bin_size, max_gap)
  IN [sums |-> acc.sums, counts |-> acc.counts,
      table |-> CalTable(acc, bin_size, max_gap)]

\* the competitions of the calibration corpus
CalCompetitions == {11, 12}

\* the gaps of the corpus: every half point up to a point beyond the edges
CalGaps ==
  {k * (Unit \div 2) :
     k \in (-2 * (MaxGap + BinSize + 1))..(2 * (MaxGap + BinSize + 1))}

\* a document the updater has recorded pre-match ratings on, with the
\* given gap between the adjusted home rating and the away rating
RatedDoc(id, comp, gap, hg, ag) ==
  [MatchDoc(id, comp, id, 1, 2, hg, ag) EXCEPT
     !.home_elo_pre_match = INITIAL_ELO + gap - HOME_ADVANTAGE,
     !.home_elo_pre_match_HA = INITIAL_ELO + gap,
     !.away_elo_pre_match = INITIAL_ELO,
     !.away_elo_pre_match_HA = INITIAL_ELO,
     !.BTTS = IF hg > 0 /\ ag > 0 THEN 1 ELSE 0]

\* the documents a corpus may hold in place id: recorded ones, and ones
\* the updater has not recorded ratings on
CalDocs(id) ==
  {RatedDoc(id, comp, gap, hg, ag) :
     comp \in CalCompetitions, gap \in CalGaps,
     hg \in 0..MaxGoals, ag \in 0..MaxGoals}
  \cup {MatchDoc(id, comp, id, 1, 2, 1, 0) : comp \in CalCompetitions}

RECURSIVE CalCorpora(_)
\* the corpora of at most n documents
CalCorpora(n) ==
  IF n = 0 THEN {<<>>}
  ELSE CalCorpora(n - 1)
       \cup {Append(c, m) : c \in {d \in CalCorpora(n - 1) : Len(d) = n - 1},
                            m \in CalDocs(n)}

RECURSIVE CalIdLists(_)
\* the lists of at most n competition ids, n > 0
CalIdLists(n) ==
  IF n = 1 THEN {<<c>> : c \in CalCompetitions}
  ELSE CalIdLists(n - 1)
       \cup {Append(l, c) : l \in {k \in CalIdLists(n - 1) : Len(k) = n - 1},
                            c \in CalCompetitions}

\* lines 126-182: one iteration of the loop over the batches
CalBatch ==
  /\ loc.op = "calibration"
  /\ loc.batch_num <= Len(loc.batches)
  /\ LET acc == CalBatchStep([sums |-> loc.sums, counts |-> loc.counts],
                             loc.corpus, loc.batches[loc.batch_num],
                             BinSize, MaxGap)
     IN loc' = [loc EXCEPT !.sums = acc.sums, !.counts = acc.counts,
                           !.batch_num = loc.batch_num + 1]
  /\ UNCHANGED updater_vars

\* lines 184-217: the averages, once every batch has been processed
CalAverages ==
  /\ loc.op = "calibration"
  /\ loc.batch_num > Len(loc.batches)
  /\ ~loc.saved
  /\ loc' = [loc EXCEPT
               !.table = CalTable([sums |-> loc.sums, counts |-> loc.counts],
                                  BinSize, MaxGap),
               !.saved = TRUE]
  /\ UNCHANGED updater_vars

CalNext == CalBatch \/ CalAverages

\* lines 111-124: the call of process_competitions
InitCalibration ==
  /\ Idle
  /\ \E coll \in CalCorpora(MaxCalDocs) :
     \E ids \in CalIdLists(MaxCalIds) :
     \E batch_size \in 1..MaxBatch :
       loc = [op |-> "calibration", corpus |-> coll,
              competition_ids |-> ids, batch_size |-> batch_size,
              batches |-> split_into_batches(ids, batch_size),
              batch_num |-> 1,
              sums |-> CalZero(BinSize, MaxGap).sums,
              counts |-> CalZero(BinSize, MaxGap).counts,
              table |-> <<>>, saved |-> FALSE, failed_batches |-> {}]

SpecCalibration == InitCalibration /\ [][CalNext]_vars

\* lines 44-55 and 130-132: find raises in the retrieval of a batch,
\* retrieve_matches logs the error and returns [], and the loop goes on to
\* the next batch
CalBatchFails ==
  /\ loc.op = "calibration"
  /\ loc.batch_num <= Len(loc.batches)
  /\ loc' = [loc EXCEPT !.failed_batches = @ \cup {loc.batch_num},
                        !.batch_num = loc.batch_num + 1]
  /\ UNCHANGED updater_vars

CalFaultsNext == CalBatch \/ CalBatchFails \/ CalAverages

\* the calibration run with retrievals that may fail
SpecCalFaults == InitCalibration /\ [][CalFaultsNext]_vars

(***************************************************************************)
(* Claims about the Gap Calibration Builder                                *)
(***************************************************************************)
\* the places of the corpus whose documents the run retrieves and keeps:
\* a competition of the list, adjusted ratings and goal counts present
CalValid ==
  {i \in DOMAIN loc.corpus :
     /\ loc.corpus[i].competition_id \in Range(loc.competition_ids)
     /\ ~CalInvalid(loc.corpus[i])}

\* the gap and the margin of the document in place i
GapAt(i) ==
  loc.corpus[i].home_elo_pre_match_HA - loc.corpus[i].away_elo_pre_match_HA

MarginAt(i) == loc.corpus[i].homeGoalCount - loc.corpus[i].awayGoalCount

\* no competition is named twice in the list
NoRepeats(ids) ==
  \A i, j \in DOMAIN ids : ids[i] = ids[j] => i = j

\* the bin of a partition of the whole axis with saturating end bins: the
\* first bin below the lowest edge, the last above the highest, and the
\* bin of the interval (edge, next edge] in between
SaturatingBin(gap) ==
  LET bins == BinEdges(BinSize, MaxGap)
  IN IF gap < bins[1] * Unit THEN 1
     ELSE IF gap > bins[Len(bins)] * Unit THEN Len(bins) - 1
     ELSE bin_elo_gaps(gap, BinSize, MaxGap)

\* C12: when the builder has run over a list of distinct competitions,
\* every match with valid adjusted ratings and goal counts is counted in
\* exactly one bin, a gap beyond the edges in the end bin of its side, so
\* that the counts sum to the number of valid matches.
C12_Partition ==
  (loc.op = "calibration" /\ loc.saved /\ NoRepeats(loc.competition_ids)) =>
    /\ \A b \in DOMAIN loc.counts :
         loc.counts[b] =
           Cardinality({i \in CalValid : SaturatingBin(GapAt(i)) = b})
    /\ SumSeq(loc.counts) = Cardinality(CalValid)

\* C13: the sums, the counts and the averages the builder ends with are the
\* ones process_competitions produces with any other batch size over the
\* same list of competition ids and the same corpus.
C13_Batching ==
  (loc.op = "calibration" /\ loc.saved) =>
    \A batch_size \in 1..MaxBatch :
      LET other == process_competitions(loc.corpus, loc.competition_ids,
                                        BinSize, MaxGap, batch_size)
      IN /\ other.sums = loc.sums
         /\ other.counts = loc.counts
         /\ other.table = loc.table

\* the valid matches whose gap lies in the interval of bin b, which is
\* (edge, next edge], the first bin holding its lower edge too
InBin(b) ==
  LET bins == BinEdges(BinSize, MaxGap)
  IN {i \in CalValid :
        \/ bins[b] * Unit < GapAt(i) /\ GapAt(i) <= bins[b + 1] * Unit
        \/ b = 1 /\ GapAt(i) = bins[1] * Unit}

\* the sum of the margins of a set of places of the corpus
MarginSum(S) ==
  SumSeq([i \in DOMAIN loc.corpus |-> IF i \in S THEN MarginAt(i) ELSE 0])

ZeroFloat == [num |-> 0, den |-> 1]

\* re.findall(r'-?\d+', bin_str) on the text f"{lower}-{upper}": the
\* first integer with its sign, and the second with the separating hyphen
\* as its sign when it is written without one
extract_lower_upper_bounds(bin_str) ==
  <<bin_str.lower, IF bin_str.upper >= 0 THEN -bin_str.upper ELSE bin_str.upper>>

\* compute_expected_goal_diff(elo_gap, overall_avg_goal_diffs_df); iteritems
\* tells whether the installed pandas still has Series.iteritems (removed
\* in pandas 2.0): without it line 104 raises and line 127 returns 0.0
compute_expected_goal_diff(elo_gap, overall_avg_goal_diffs_df, iteritems) ==
  LET df == overall_avg_goal_diffs_df
      elo_gap_bins == [idx \in DOMAIN df |->
                         extract_lower_upper_bounds(df[idx].elo_gap_bin)]
      matched == {idx \in DOMAIN df :
                    /\ elo_gap_bins[idx][1] * Unit <= elo_gap
                    /\ elo_gap <= elo_gap_bins[idx][2] * Unit}
  IN IF ~iteritems \/ Len(df) = 0 THEN ZeroFloat
     ELSE IF matched # {}
       THEN df[CHOOSE idx \in matched : \A j \in matched : idx <= j].avg_goal_diff
     ELSE IF elo_gap < elo_gap_bins[1][1] * Unit THEN df[1].avg_goal_diff
     ELSE df[Len(df)].avg_goal_diff

\* the averages a table may hold
TableAverages == {[num |-> n, den |-> 1] : n \in (-MaxGoals)..MaxGoals}

\* the tables the builder saves for the configured bins
CalTables ==
  LET bin_labels == BinLabels(BinSize, MaxGap)
  IN {[b \in DOMAIN bin_labels |->
         [elo_gap_bin |-> bin_labels[b], avg_goal_diff |-> avg[b]]] :
        avg \in [DOMAIN bin_labels -> TableAverages]}

\* line 342: one call of compute_expected_goal_diff
ExpectedCall ==
  /\ loc.op = "expected_inputs"
  /\ loc' = [op |-> "expected", elo_gap |-> loc.elo_gap, table |-> loc.table,
             iteritems |-> loc.iteritems,
             expected_goal_diff |->
               compute_expected_goal_diff(loc.elo_gap, loc.table, loc.iteritems)]
  /\ UNCHANGED updater_vars

InitExpected ==
  /\ Idle
  /\ \E elo_gap \in CalGaps : \E table \in CalTables : \E iteritems \in BOOLEAN :
       loc = [op |-> "expected_inputs", elo_gap |-> elo_gap, table |-> table,
              iteritems |-> iteritems]

SpecExpected == InitExpected /\ [][ExpectedCall]_vars

\* C15: compute_expected_goal_diff returns the average of the bin in which
\* the builder accumulates a match with that gap, and for a gap below the
\* lowest edge or above the highest the average of the first or the last
\* bin (stated for a pandas that still has Series.iteritems).
C15_SameBin ==
  (loc.op = "expected" /\ loc.iteritems) =>
    loc.expected_goal_diff = loc.table[SaturatingBin(loc.elo_gap)].avg_goal_diff

(***************************************************************************)
(* Floats of the solver, held as fractions in lowest terms                 *)
(***************************************************************************)
FInt(n) == [num |-> n, den |-> 1]

FAdd(a, b) == Fraction(a.num * b.den + b.num * a.den, a.den * b.den)

FSub(a, b) == Fraction(a.num * b.den - b.num * a.den, a.den * b.den)

FMul(a, b) == Fraction(a.num * b.num, a.den * b.den)

\* a / b for b # 0
FDiv(a, b) ==
  IF b.num < 0 THEN Fraction(-(a.num * b.den), -(a.den * b.num))
  ELSE Fraction(a.num * b.den, a.den * b.num)

FLess(a, b) == a.num * b.den < b.num * a.den

RECURSIVE FSum(_)
FSum(q) == IF q = <<>> THEN FInt(0) ELSE FAdd(Head(q), FSum(Tail(q)))

\* matrices are sequences of rows
Transposed(A) == [j \in DOMAIN A[1] |-> [i \in DOMAIN A |-> A[i][j]]]

MatVec(A, v) == [i \in DOMAIN A |-> FSum([j \in DOMAIN v |-> FMul(A[i][j], v[j])])]

MatMul(A, B) ==
  [i \in DOMAIN A |->
     [j \in DOMAIN B[1] |-> FSum([k \in DOMAIN B |-> FMul(A[i][k], B[k][j])])]]

RECURSIVE Eliminate(_, _, _, _)
\* Gauss-Jordan elimination of the augmented matrix aug of n rows from
\* column col and row row on; pivots lists the pivot columns found
Eliminate(aug, col, row, pivots) ==
  LET n == Len(aug)
      cand == {r \in row..n : aug[r][col].num # 0}
  IN IF col > n \/ row > n THEN [aug |-> aug, pivots |-> pivots]
     ELSE IF cand = {} THEN Eliminate(aug, col + 1, row, pivots)
     ELSE LET p == CHOOSE r \in cand : \A q \in cand : r <= q
              swapped == [r \in 1..n |-> IF r = row THEN aug[p]
                                         ELSE IF r = p THEN aug[row]
                                         ELSE aug[r]]
              pivot == [j \in 1..(n + 1) |->
                          FDiv(swapped[row][j], swapped[row][col])]
              cleared == [r \in 1..n |->
                            IF r = row THEN pivot
                            ELSE [j \in 1..(n + 1) |->
                                    FSub(swapped[r][j],
                                         FMul(swapped[r][col], pivot[j]))]]
          IN Eliminate(cleared, col + 1, row + 1, Append(pivots, col))

\* a solution of the consistent system A v = b, its free unknowns 0
SolveAny(A, b) ==
  LET n == Len(A)
      aug == [i \in 1..n |-> [j \in 1..(n + 1) |-> IF j <= n THEN A[i][j] ELSE b[i]]]
      e == Eliminate(aug, 1, 1, <<>>)
  IN [j \in 1..n |->
        IF \E k \in DOMAIN e.pivots : e.pivots[k] = j
        THEN e.aug[CHOOSE k \in DOMAIN e.pivots : e.pivots[k] = j][n + 1]
        ELSE FInt(0)]

\* np.linalg.lstsq(M, y, rcond=None)[0]: the x of least norm among those
\* that minimise |M x - y|, which is the solution of the normal equations
\* (M^T M) x = M^T y that lies in the range of M^T M
lstsq(M, y) ==
  LET A == MatMul(Transposed(M), M)
      b == MatVec(Transposed(M), y)
  IN MatVec(A, SolveAny(MatMul(A, A), b))

(***************************************************************************)
(* process_league_ratings                                                  *)
(*                                                                         *)
(* The leagues are 1..MaxLeagues, numbered in the order of their names.    *)
(* The documents of the collections are drawn when the loop reads them:    *)
(* no team plays in two of the inter-league matches of a run, so what is   *)
(* drawn for one match says nothing about the documents of another.        *)
(***************************************************************************)
\* the domestic leagues of combined_ids.csv: 1..MaxLeagues
MaxLeagues == 3
\* the inter-league matches a run retrieves: at most MaxInter
MaxInter == 2

\* the teams of the k-th inter-league match: one candidate per league for
\* each side, and one the teams collection has no domestic league for
HomeTeams(k) == {(2 * k - 1) * (MaxLeagues + 1) + l : l \in 0..MaxLeagues}

AwayTeams(k) == {2 * k * (MaxLeagues + 1) + l : l \in 0..MaxLeagues}

\* get_team_domestic_league: the league of the team's domestic
\* competition in the season, Null (None) when it has none
get_team_domestic_league(team_id) ==
  IF team_id % (MaxLeagues + 1) = 0 THEN Null ELSE team_id % (MaxLeagues + 1)

\* lines 314-322: the competition ids of a league in the season
league_comp_ids(league) == <<100 + league>>

\* the date of the k-th inter-league match
DateOf(k) == 10 * k

\* a domestic match of the team at the date, the team on the given side;
\* a rated document holds what the updater records: each side's rating,
\* and the home side's rating plus the home advantage
DomesticDoc(team_id, date, side, rated) ==
  LET league == get_team_domestic_league(team_id)
      opponent == team_id + 2 * (MaxInter + 1) * (MaxLeagues + 1)
      doc == MatchDoc(DateOf(MaxInter + 1) * team_id + date,
                      league_comp_ids(league)[1], date,
                      IF side = "home" THEN team_id ELSE opponent,
                      IF side = "home" THEN opponent ELSE team_id, 0, 0)
      rating == INITIAL_ELO + date * Unit
  IN IF rated
     THEN [doc EXCEPT !.home_elo_pre_match = rating,
                      !.home_elo_pre_match_HA = rating + HOME_ADVANTAGE,
                      !.away_elo_pre_match = rating,
                      !.away_elo_pre_match_HA = rating,
                      !.BTTS = 0]
     ELSE doc

\* the domestic matches of a team around the date: the one before it,
\* which may not exist, and the ones after it: none, a rated one, or one
\* without ratings that a rated one may follow
Adjacent(team_id, date) ==
  LET before == {<<>>} \cup {<<DomesticDoc(team_id, date - 1, "home", r)>> :
                               r \in BOOLEAN}
      unrated == DomesticDoc(team_id, date + 1, "home", FALSE)
      after == {<<>>, <<unrated>>,
                <<DomesticDoc(team_id, date + 2, "away", TRUE), unrated>>}
               \cup {<<DomesticDoc(team_id, date + 1, sd, TRUE)>> :
                       sd \in {"home", "away"}}
  IN {b \o a : b \in before, a \in after}

\* the rating get_team_elo reads from a match: the adjusted home rating
\* of a team that was at home, the away rating otherwise
TeamField(match, team_id) ==
  IF match.homeID = team_id THEN match.home_elo_pre_match_HA
  ELSE match.away_elo_pre_match_HA

\* the documents of query_next and query_prev
TeamMatches(matches_collection, team_id, league_competition_ids) ==
  {i \in DOMAIN matches_collection :
     /\ matches_collection[i].competition_id \in Range(league_competition_ids)
     /\ \/ matches_collection[i].homeID = team_id
        \/ matches_collection[i].awayID = team_id}

\* a get_team_elo that searches backward first
get_team_elo_backward(matches_collection, team_id, league_competition_ids, match_date_unix) ==
  LET mine == TeamMatches(matches_collection, team_id, league_competition_ids)
      next == {i \in mine : matches_collection[i].date_unix > match_date_unix}
      prev == {i \in mine : matches_collection[i].date_unix < match_date_unix}
      first == {i \in next : \A j \in next :
                  matches_collection[i].date_unix <= matches_collection[j].date_unix}
      last == {i \in prev : \A j \in prev :
                 matches_collection[i].date_unix >= matches_collection[j].date_unix}
      elo(i) == TeamField(matches_collection[i], team_id)
      from_next == IF next = {} THEN {Null}
                   ELSE {IF IsNumber(elo(i)) THEN elo(i) ELSE Null : i \in first}
  IN IF prev = {} THEN from_next
     ELSE UNION {IF IsNumber(elo(i)) THEN {elo(i)} ELSE from_next : i \in last}

\* get_team_elo: the values the call may return, Null for None.  find
\* with sort and limit(1) yields one of the matches of the nearest date;
\* a missing or null rating raises inside the try and the search goes on
get_team_elo(matches_collection, team_id, league_competition_ids, match_date_unix) ==
  LET mine == TeamMatches(matches_collection, team_id, league_competition_ids)
      next == {i \in mine : matches_collection[i].date_unix > match_date_unix}
      prev == {i \in mine : matches_collection[i].date_unix < match_date_unix}
      first == {i \in next : \A j \in next :
                  matches_collection[i].date_unix <= matches_collection[j].date_unix}
      last == {i \in prev : \A j \in prev :
                 matches_collection[i].date_unix >= matches_collection[j].date_unix}
      elo(i) == TeamField(matches_collection[i], team_id)
      from_prev == IF prev = {} THEN {Null}
                   ELSE {IF IsNumber(elo(i)) THEN elo(i) ELSE Null : i \in last}
  IN IF next = {} THEN from_prev
     ELSE UNION {IF IsNumber(elo(i)) THEN {elo(i)} ELSE from_prev : i \in first}

\* the calibration table of the run: the configured bins, with averages
\* from -3/2 in steps of 1
MasseyTable ==
  LET bin_labels == BinLabels(BinSize, MaxGap)
  IN [b \in DOMAIN bin_labels |->
        [elo_gap_bin |-> bin_labels[b],
         avg_goal_diff |-> Fraction(2 * b - Len(bin_labels) - 1, 2)]]

\* the locals of the loop that one iteration leaves for the next
NoMatch == [skipped |-> "none"]

\* a skipped match counted once for each team without a domestic league
MasseySkip_perTeam(l, reason, seen) ==
  [l EXCEPT
     !.at = "loop", !.k = l.k + 1,
     !.missing_team_data_counter = @ + (IF reason = "team_data" THEN 1 ELSE 0),
     !.missing_domestic_league_counter =
        @ + (IF reason # "league" THEN 0
             ELSE (IF seen.home_league = Null THEN 1 ELSE 0)
                  + (IF seen.away_league = Null THEN 1 ELSE 0)),
     !.missing_elo_counter = @ + (IF reason = "elo" THEN 1 ELSE 0),
     !.match = [skipped |-> reason] @@ seen]

\* a skipped match: the counter of its reason goes up by one
MasseySkip(l, reason, seen) ==
  [l EXCEPT
     !.at = "loop", !.k = l.k + 1,
     !.missing_team_data_counter = @ + (IF reason = "team_data" THEN 1 ELSE 0),
     !.missing_domestic_league_counter = @ + (IF reason = "league" THEN 1 ELSE 0),
     !.missing_elo_counter = @ + (IF reason = "elo" THEN 1 ELSE 0),
     !.match = [skipped |-> reason] @@ seen]

\* lines 338-355: the row of a match and the counters of a used match
MasseyUse(l, seen, home_goals, away_goals) ==
  LET goal_diff == home_goals - away_goals
      elo_gap == compute_elo_gap(seen.home_elo, seen.away_elo)
      expected_goal_diff ==
        compute_expected_goal_diff(elo_gap, l.table, l.iteritems)
      residual == FSub(FInt(goal_diff), expected_goal_diff)
      per_league == [l.matches_per_league EXCEPT ![seen.home_league] = @ + 1]
  IN [l EXCEPT
        !.at = "loop", !.k = l.k + 1,
        !.data = Append(@, [match_id |-> l.k, home_league |-> seen.home_league,
                            away_league |-> seen.away_league,
                            residual |-> residual]),
        !.total_matches_used = @ + 1,
        !.matches_per_league = [per_league EXCEPT ![seen.away_league] = @ + 1],
        !.match = [skipped |-> "no", elo_gap |-> elo_gap] @@ seen]

\* line 287: the loop takes the next match
MasseyFor ==
  /\ loc.op = "massey" /\ loc.at = "loop" /\ loc.k <= loc.n
  /\ loc' = [loc EXCEPT !.at = "body", !.match = NoMatch]
  /\ UNCHANGED updater_vars

\* lines 288-364: the body of the loop, for the match taken
MasseyMatch ==
  /\ loc.op = "massey" /\ loc.at = "body"
  /\ \E date \in {Null, DateOf(loc.k)} :
       IF date = Null
       THEN loc' = MasseySkip(loc, "team_data", [date |-> date])
       ELSE \E home_team_id \in HomeTeams(loc.k), away_team_id \in AwayTeams(loc.k) :
         LET home_league == get_team_domestic_league(home_team_id)
             away_league == get_team_domestic_league(away_team_id)
             teams == [home_team_id |-> home_team_id,
                       away_team_id |-> away_team_id,
                       home_league |-> home_league,
                       away_league |-> away_league]
         IN IF home_league = Null \/ away_league = Null
            THEN loc' = MasseySkip(loc, "league", teams)
            ELSE \E comp_ids_found \in BOOLEAN :
              \* lines 320-323: combined_ids_df has no competition of one of
              \* the leagues in the season of the match
              IF ~comp_ids_found
              THEN loc' = MasseySkip(loc, "league",
                                     [comp_ids_found |-> FALSE] @@ teams)
              ELSE \E home_docs \in Adjacent(home_team_id, date),
                    away_docs \in Adjacent(away_team_id, date) :
              LET matches_collection == home_docs \o away_docs
              IN \E home_elo \in get_team_elo(matches_collection, home_team_id,
                                              league_comp_ids(home_league), date),
                    away_elo \in get_team_elo(matches_collection, away_team_id,
                                              league_comp_ids(away_league), date) :
                   LET seen == [domestic |-> matches_collection,
                                date |-> date,
                                home_elo |-> home_elo,
                                away_elo |-> away_elo] @@ teams
                   IN IF home_elo = Null \/ away_elo = Null
                      THEN loc' = MasseySkip(loc, "elo", seen)
                      ELSE \E home_goals \in (0..MaxGoals) \cup {Null},
                              away_goals \in 0..MaxGoals :
                             IF IntFails(home_goals)
                             THEN loc' = MasseySkip(loc, "team_data", seen)
                             ELSE loc' = MasseyUse(loc, seen, home_goals,
                                                   away_goals)
  /\ UNCHANGED updater_vars

\* lines 366-371: no valid data, the run exits without a result
MasseyExit ==
  /\ loc.op = "massey" /\ loc.at = "loop" /\ loc.k > loc.n
  /\ loc.data = <<>>
  /\ loc' = [loc EXCEPT !.at = "exit", !.match = NoMatch]
  /\ UNCHANGED updater_vars

\* sorted(set(data['home_league']).union(set(data['away_league'])))
SortedLeagues(data) ==
  LET names == {data[i].home_league : i \in DOMAIN data}
               \cup {data[i].away_league : i \in DOMAIN data}
  IN [r \in 1..Cardinality(names) |->
        CHOOSE x \in names : Cardinality({z \in names : z < x}) = r - 1]

\* league_indices[league], counted from 1
LeagueIndex(leagues, league) == CHOOSE i \in DOMAIN leagues : leagues[i] = league

\* M[i, j] += d
MatAdd(M, i, j, d) == [M EXCEPT ![i][j] = @ + d]

\* a loop body that leaves M[away_idx, home_idx] alone
massey_row_oneway(M, y, home_idx, away_idx, residual) ==
  LET M1 == MatAdd(M, home_idx, home_idx, 1)
      M2 == MatAdd(M1, away_idx, away_idx, 1)
      M3 == MatAdd(M2, home_idx, away_idx, -1)
      y1 == [y EXCEPT ![home_idx] = FAdd(@, residual)]
  IN [M |-> M3, y |-> [y1 EXCEPT ![away_idx] = FSub(@, residual)]]

\* lines 159-169: the body of the loop of build_massey_matrix
massey_row(M, y, home_idx, away_idx, residual) ==
  LET M1 == MatAdd(M, home_idx, home_idx, 1)
      M2 == MatAdd(M1, away_idx, away_idx, 1)
      M3 == MatAdd(M2, home_idx, away_idx, -1)
      M4 == MatAdd(M3, away_idx, home_idx, -1)
      y1 == [y EXCEPT ![home_idx] = FAdd(@, residual)]
  IN [M |-> M4, y |-> [y1 EXCEPT ![away_idx] = FSub(@, residual)]]

\* a constraint that sets the last row and leaves the vector alone
impose_constraint_row(M, y) ==
  [M |-> [M EXCEPT ![Len(M)] = [j \in DOMAIN M |-> 1]], y |-> y]

\* lines 172-173: M[-1, :] = 1 and y[-1] = 0
impose_constraint(M, y) ==
  [M |-> [M EXCEPT ![Len(M)] = [j \in DOMAIN M |-> 1]],
   y |-> [y EXCEPT ![Len(y)] = FInt(0)]]

\* solve_massey_equation(M, y)
solve_massey_equation(M, y) ==
  lstsq([i \in DOMAIN M |-> [j \in DOMAIN M[i] |-> FInt(M[i][j])]], y)

\* lines 373-377 and 149-155: the data frame is not empty;
\* build_massey_matrix starts from the sorted leagues and zeros
MasseyBuild ==
  /\ loc.op = "massey" /\ loc.at = "loop" /\ loc.k > loc.n
  /\ loc.data # <<>>
  /\ LET leagues == SortedLeagues(loc.data)
     IN loc' = [loc EXCEPT
                  !.at = "rows", !.match = NoMatch, !.leagues = leagues,
                  !.M = [i \in DOMAIN leagues |-> [j \in DOMAIN leagues |-> 0]],
                  !.y = [i \in DOMAIN leagues |-> FInt(0)],
                  !.idx = 1]
  /\ UNCHANGED updater_vars

\* lines 158-169: one row of the data
MasseyRow ==
  /\ loc.op = "massey" /\ loc.at = "rows" /\ loc.idx <= Len(loc.data)
  /\ LET row == loc.data[loc.idx]
         sys == massey_row(loc.M, loc.y,
                           LeagueIndex(loc.leagues, row.home_league),
                           LeagueIndex(loc.leagues, row.away_league),
                           row.residual)
     IN loc' = [loc EXCEPT !.M = sys.M, !.y = sys.y, !.idx = loc.idx + 1]
  /\ UNCHANGED updater_vars

\* lines 171-175: the constraint that the ratings sum to zero
MasseyConstraint ==
  /\ loc.op = "massey" /\ loc.at = "rows" /\ loc.idx > Len(loc.data)
  /\ LET sys == impose_constraint(loc.M, loc.y)
     IN loc' = [loc EXCEPT !.M = sys.M, !.y = sys.y, !.at = "solve"]
  /\ UNCHANGED updater_vars

\* the orders sort_values(by='rating', ascending=False) may give the rows
SortedByRating(rows) ==
  {q \in [DOMAIN rows -> DOMAIN rows] :
     /\ \A i, j \in DOMAIN rows : q[i] = q[j] => i = j
     /\ \A i, j \in DOMAIN rows :
          i < j => ~FLess(rows[q[i]].rating, rows[q[j]].rating)}

\* lines 378-404: the solution and the table of league ratings
MasseySolve ==
  /\ loc.op = "massey" /\ loc.at = "solve"
  /\ LET ratings == solve_massey_equation(loc.M, loc.y)
         rows == [i \in DOMAIN loc.leagues |->
                    [league |-> loc.leagues[i], rating |-> ratings[i]]]
     IN \E q \in SortedByRating(rows) :
          loc' = [loc EXCEPT !.at = "done", !.ratings = ratings,
                             !.league_ratings = [i \in DOMAIN rows |-> rows[q[i]]]]
  /\ UNCHANGED updater_vars

\* lines 181-186 and 379-382: np.linalg.lstsq raises, solve_massey_equation
\* logs the error and returns None, process_league_ratings logs "Failed to
\* compute league ratings. Exiting." and returns without a table
MasseySolveFails ==
  /\ loc.op = "massey" /\ loc.at = "solve"
  /\ loc' = [loc EXCEPT !.at = "failed", !.solver_error = TRUE]
  /\ UNCHANGED updater_vars

\* lines 458-467: process_league_ratings has returned and main logs
\* "League Ratings script completed successfully."
MasseyReturn ==
  /\ loc.op = "massey" /\ loc.at \in {"exit", "failed", "done"}
  /\ loc' = [loc EXCEPT !.at = "returned", !.reported = "success"]
  /\ UNCHANGED updater_vars

MasseyNext ==
  \/ MasseyFor
  \/ MasseyMatch
  \/ MasseyExit
  \/ MasseyBuild
  \/ MasseyRow
  \/ MasseyConstraint
  \/ MasseySolve
  \/ MasseySolveFails
  \/ MasseyReturn

\* lines 270-285: the matches are retrieved and there is at least one
InitMassey ==
  /\ Idle
  /\ \E n \in 1..MaxInter : \E iteritems \in BOOLEAN :
       loc = [op |-> "massey", at |-> "loop", n |-> n, k |-> 1,
              table |-> MasseyTable, iteritems |-> iteritems,
              missing_team_data_counter |-> 0,
              missing_domestic_league_counter |-> 0,
              missing_elo_counter |-> 0,
              total_matches_used |-> 0,
              matches_per_league |-> [l \in 1..MaxLeagues |-> 0],
              data |-> <<>>, match |-> NoMatch,
              leagues |-> <<>>, M |-> <<>>, y |-> <<>>, idx |-> 0,
              ratings |-> <<>>, league_ratings |-> <<>>,
              solver_error |-> FALSE, reported |-> "nothing"]

SpecMassey == InitMassey /\ [][MasseyNext]_vars

(***************************************************************************)
(* build_massey_matrix and solve_massey_equation on their own: the data    *)
(* frame is any of the frames the loop can leave, over more leagues        *)
(***************************************************************************)
\* the leagues of a data frame: 1..MaxSolveLeagues
MaxSolveLeagues == 4
\* the rows of a data frame: 1..MaxRows
MaxRows == 2

\* the residuals of a row: a margin of 0 or MaxGoals less an expectation
\* of 0.0 or of the last average of the table
Residuals ==
  {FSub(FInt(g), a) : g \in {0, MaxGoals},
                      a \in {ZeroFloat, MasseyTable[Len(MasseyTable)].avg_goal_diff}}

RECURSIVE DataFrames(_)
\* the data frames of n rows
DataFrames(n) ==
  IF n = 0 THEN {<<>>}
  ELSE {Append(d, [match_id |-> n, home_league |-> h, away_league |-> a,
                   residual |-> r]) :
          d \in DataFrames(n - 1),
          h \in 1..MaxSolveLeagues, a \in 1..MaxSolveLeagues, r \in Residuals}

\* lines 149-155: build_massey_matrix is called with a data frame
InitSolve ==
  /\ Idle
  /\ \E n \in 1..MaxRows : \E data \in DataFrames(n) :
       LET leagues == SortedLeagues(data)
       IN loc = [op |-> "massey", at |-> "rows", data |-> data,
                 leagues |-> leagues,
                 M |-> [i \in DOMAIN leagues |-> [j \in DOMAIN leagues |-> 0]],
                 y |-> [i \in DOMAIN leagues |-> FInt(0)],
                 idx |-> 1, ratings |-> <<>>, league_ratings |-> <<>>]

SolveNext == MasseyRow \/ MasseyConstraint \/ MasseySolve

SpecSolve == InitSolve /\ [][SolveNext]_vars

(***************************************************************************)
(* Claims about the Competition Strength Solver                            *)
(***************************************************************************)
\* the loop body has just read the domestic matches of both teams
Resolved ==
  /\ loc.op = "massey" /\ loc.at = "loop"
  /\ "domestic" \in DOMAIN loc.match

\* the domestic matches of a team among those read, after and before the
\* date of the inter-league match
DomesticAfter(team_id) ==
  {d \in Range(loc.match.domestic) :
     /\ team_id \in {d.homeID, d.awayID}
     /\ d.date_unix > loc.match.date}

DomesticBefore(team_id) ==
  {d \in Range(loc.match.domestic) :
     /\ team_id \in {d.homeID, d.awayID}
     /\ d.date_unix < loc.match.date}

\* the team's pre-match rating recorded on a domestic match, without and
\* with the home advantage
RawRating(d, team_id) ==
  IF d.homeID = team_id THEN d.home_elo_pre_match ELSE d.away_elo_pre_match

AdjustedRating(d, team_id) ==
  IF d.homeID = team_id THEN d.home_elo_pre_match_HA
  ELSE d.away_elo_pre_match_HA

HasRating(d, team_id) ==
  IsNumber(RawRating(d, team_id)) /\ IsNumber(AdjustedRating(d, team_id))

\* the nearest domestic match after the date and the most recent before
NearestAfter(team_id) ==
  CHOOSE d \in DomesticAfter(team_id) :
    \A e \in DomesticAfter(team_id) : d.date_unix <= e.date_unix

NearestBefore(team_id) ==
  CHOOSE d \in DomesticBefore(team_id) :
    \A e \in DomesticBefore(team_id) : d.date_unix >= e.date_unix

\* where the team's rating is to be read: the nearest match after the date
\* when there is one and it has a recorded rating, otherwise the most
\* recent match before the date when there is one and it has a recorded
\* rating
FromAfter(team_id) ==
  DomesticAfter(team_id) # {} /\ HasRating(NearestAfter(team_id), team_id)

FromBefore(team_id) ==
  /\ ~FromAfter(team_id)
  /\ DomesticBefore(team_id) # {}
  /\ HasRating(NearestBefore(team_id), team_id)

RatingMatch(team_id) ==
  IF FromAfter(team_id) THEN NearestAfter(team_id) ELSE NearestBefore(team_id)

\* C16: the gap of a used match between teams of different leagues is the
\* home team's rating plus the home advantage minus the away team's rating
\* without it, the ratings being the ones recorded for the teams on the
\* adjacent domestic matches, whichever side each team had there.
C16_Gap ==
  (/\ Resolved /\ loc.match.skipped = "no"
   /\ loc.match.home_league # loc.match.away_league) =>
    loc.match.elo_gap =
      RawRating(RatingMatch(loc.match.home_team_id), loc.match.home_team_id)
      + HOME_ADVANTAGE
      - RawRating(RatingMatch(loc.match.away_team_id), loc.match.away_team_id)

\* the rating resolved for a team follows the forward-first rule
ResolvedAsRuled(team_id, elo) ==
  IF FromAfter(team_id) \/ FromBefore(team_id)
  THEN elo \in {RawRating(RatingMatch(team_id), team_id),
                AdjustedRating(RatingMatch(team_id), team_id)}
  ELSE elo = Null

\* C19: the rating of each team of an inter-league match is read from the
\* team's nearest domestic match strictly after the date when that match
\* has a recorded rating, otherwise from its most recent domestic match
\* strictly before the date, otherwise there is none; a match with a team
\* without a rating adds no row to the data of the linear system and adds
\* one to the count of matches skipped for a missing rating.
C19_Resolve ==
  [][(loc.op = "massey" /\ loc.at = "body" /\ "domestic" \in DOMAIN loc'.match) =>
       /\ ResolvedAsRuled(loc.match.home_team_id, loc.match.home_elo)'
       /\ ResolvedAsRuled(loc.match.away_team_id, loc.match.away_elo)'
       /\ (loc'.match.home_elo = Null \/ loc'.match.away_elo = Null) =>
            /\ loc'.match.skipped = "elo"
            /\ loc'.data = loc.data
            /\ loc'.total_matches_used = loc.total_matches_used
            /\ loc'.missing_elo_counter = loc.missing_elo_counter + 1
            /\ loc'.missing_team_data_counter = loc.missing_team_data_counter
            /\ loc'.missing_domestic_league_counter
                 = loc.missing_domestic_league_counter
       /\ (loc'.match.home_elo # Null /\ loc'.match.away_elo # Null) =>
            loc'.missing_elo_counter = loc.missing_elo_counter]_vars

\* the home team's nearest later match has no rating although a later one
\* has, so its rating is read from the match before; the away team has no
\* match with a rating and the inter-league match is skipped
C19_Witness ==
  /\ Resolved
  /\ loc.match.skipped = "elo"
  /\ Cardinality(DomesticAfter(loc.match.home_team_id)) = 2
  /\ FromBefore(loc.match.home_team_id)
  /\ loc.match.home_elo # Null
  /\ DomesticAfter(loc.match.away_team_id) # {}
  /\ loc.match.away_elo = Null
  /\ loc.missing_elo_counter = 1

\* the rows of the data whose two leagues differ
Qualifying == {i \in DOMAIN loc.data : loc.data[i].home_league # loc.data[i].away_league}

\* C20: only the matches whose teams have different domestic leagues are
\* used: they alone are counted as used and per league, and the rated
\* leagues are the leagues of those matches.
C20_Qualifying ==
  loc.op = "massey" =>
    /\ loc.total_matches_used = Cardinality(Qualifying)
    /\ \A l \in DOMAIN loc.matches_per_league :
         loc.matches_per_league[l] =
           Cardinality({i \in Qualifying : loc.data[i].home_league = l})
           + Cardinality({i \in Qualifying : loc.data[i].away_league = l})
    /\ loc.at \in {"rows", "solve", "done"} =>
         Range(loc.leagues) =
           {loc.data[i].home_league : i \in Qualifying}
           \cup {loc.data[i].away_league : i \in Qualifying}

\* C17: the league ratings the solver outputs sum to 0, whatever the
\* data: one group of leagues, several groups that never meet, or a single
\* league.
C17_ZeroSum ==
  (loc.op = "massey" /\ loc.at = "done") =>
    /\ Len(loc.ratings) = Len(loc.leagues)
    /\ FSum(loc.ratings) = FInt(0)
    /\ FSum([i \in DOMAIN loc.league_ratings |-> loc.league_ratings[i].rating])
         = FInt(0)

\* two matches between two pairs of leagues that never meet, with ratings
\* that are not all 0
C17_Witness ==
  /\ loc.op = "massey" /\ loc.at = "done"
  /\ Len(loc.data) = 2
  /\ Len(loc.leagues) = 4
  /\ \E i \in DOMAIN loc.ratings : loc.ratings[i].num # 0

\* what a match between the leagues of indices A (home) and B (away) adds
\* to the entry (i, j) of the matrix
Delta(i, j, A, B) ==
  (IF i = A /\ j = A THEN 1 ELSE 0) + (IF i = B /\ j = B THEN 1 ELSE 0)
  - (IF i = A /\ j = B THEN 1 ELSE 0) - (IF i = B /\ j = A THEN 1 ELSE 0)

\* the matrix is symmetric, its rows sum to 0 and the vector sums to 0
Balanced(M, y) ==
  /\ \A i, j \in DOMAIN M : M[i][j] = M[j][i]
  /\ \A i \in DOMAIN M : SumSeq(M[i]) = 0
  /\ FSum(y) = FInt(0)

\* C18: every step of the loop of build_massey_matrix adds, for the match
\* between the leagues A (home) and B (away) with residual r, +1 to the
\* entries (A,A) and (B,B), -1 to (A,B) and (B,A), +r to the vector at A
\* and -r at B, and leaves the matrix symmetric with rows that sum to 0 and
\* a vector that sums to 0; imposing the constraint sets the last row to
\* ones and the last entry of the vector to 0 and changes nothing else.
C18_Accumulate ==
  [][(loc.op = "massey" /\ loc.at = "rows") =>
       LET n == Len(loc.leagues) IN
       IF loc'.at = "rows"
       THEN LET row == loc.data[loc.idx]
                A == Cardinality({l \in Range(loc.leagues) : l <= row.home_league})
                B == Cardinality({l \in Range(loc.leagues) : l <= row.away_league})
            IN /\ Balanced(loc.M, loc.y)
               /\ \A i, j \in 1..n :
                    loc'.M[i][j] = loc.M[i][j] + Delta(i, j, A, B)
               /\ \A i \in 1..n :
                    loc'.y[i] =
                      FAdd(loc.y[i],
                           FSub(IF i = A THEN row.residual ELSE FInt(0),
                                IF i = B THEN row.residual ELSE FInt(0)))
               /\ Balanced(loc'.M, loc'.y)
       ELSE /\ Balanced(loc.M, loc.y)
            /\ \A i \in 1..(n - 1) : loc'.M[i] = loc.M[i] /\ loc'.y[i] = loc.y[i]
            /\ loc'.M[n] = [j \in 1..n |-> 1]
            /\ loc'.y[n] = FInt(0)
            /\ Len(loc'.M) = n /\ Len(loc'.y) = n]_vars

\* the constraint has been imposed on the system of two matches among
\* three leagues, the second with its home league after its away league,
\* and the vector is not 0
C18_Witness ==
  /\ loc.op = "massey" /\ loc.at = "solve"
  /\ Len(loc.data) = 2
  /\ Len(loc.leagues) = 3
  /\ loc.data[2].home_league > loc.data[2].away_league
  /\ loc.data[1].residual.num # 0
  /\ loc.y[1].num # 0

(***************************************************************************)
(* Claims about the failures and the standings of the updater              *)
(***************************************************************************)
\* C22: a failure to load the snapshot, to read a season's matches, to
\* write a match record or to save the snapshot ends the run with an
\* error: the step that fails is the last one of main, and nothing changes
\* the rating store or the snapshot file after it.
C22_Fatal ==
  [][/\ faults' > faults => pc' = "crashed"
     /\ faults > 0 => UNCHANGED <<elo_ratings, ratings_file>>]_vars

\* the places of the season's matches that have a result: both goal
\* counts are numbers
WithResult ==
  {i \in 1..Len(matches) :
     IsNumber(matches[i].homeGoalCount) /\ IsNumber(matches[i].awayGoalCount)}

\* 3 points for a win, 1 for a draw, over the matches with a result,
\* counted for each side a team has in a match
PointsOf(team_id) ==
  LET home == {i \in WithResult : matches[i].homeID = team_id}
      away == {i \in WithResult : matches[i].awayID = team_id}
      margin(i) == matches[i].homeGoalCount - matches[i].awayGoalCount
  IN 3 * Cardinality({i \in home : margin(i) > 0})
     + 3 * Cardinality({i \in away : margin(i) < 0})
     + Cardinality({i \in home : margin(i) = 0})
     + Cardinality({i \in away : margin(i) = 0})

\* the season's standings have just been computed
StandingsStep == pc = "standings" /\ pc' = "season"

\* C25: when the standings of a season are computed, the teams with an
\* entry are the teams of the season's matches that have a result, and the
\* points of each are 3 times its wins plus its draws over those matches;
\* a match without a home or an away goal count gives no points and no
\* entry.
C25_Points ==
  [][StandingsStep =>
       LET team_points == TeamPoints(matches, <<>>)
           entered == {matches[i].homeID : i \in WithResult}
                      \cup {matches[i].awayID : i \in WithResult}
       IN /\ {team_points[i][1] : i \in DOMAIN team_points} = entered
          /\ \A i \in DOMAIN team_points :
               team_points[i][2] = PointsOf(team_points[i][1])
          /\ Range(prior_season_standings'[season].teams) = entered]_vars

\* the points team_points holds for a team
PointsIn(team_points, team_id) ==
  team_points[CHOOSE i \in DOMAIN team_points : team_points[i][1] = team_id][2]

\* when a team first appears in the season's matches: the home side of a
\* match comes before its away side
FirstAppearance(team_id) ==
  LET at == {2 * i - 1 : i \in {j \in 1..Len(matches) : matches[j].homeID = team_id}}
            \cup {2 * i : i \in {j \in 1..Len(matches) : matches[j].awayID = team_id}}
  IN CHOOSE a \in at : \A b \in at : a <= b

\* the standings list is ordered by points, ties by first appearance
OrderedStandings(teams, team_points) ==
  /\ Range(teams) = {matches[i].homeID : i \in 1..Len(matches)}
                    \cup {matches[i].awayID : i \in 1..Len(matches)}
  /\ \A i, j \in DOMAIN teams :
       i < j =>
         /\ teams[i] # teams[j]
         /\ PointsIn(team_points, teams[i]) >= PointsIn(team_points, teams[j])
         /\ PointsIn(team_points, teams[i]) = PointsIn(team_points, teams[j])
              => FirstAppearance(teams[i]) < FirstAppearance(teams[j])

\* the snapshot maps exactly the teams of the places S of the list, each
\* team of the rating store to its rating there
SnapshotOf(snapshot, teams, S, elo) ==
  /\ DOMAIN snapshot = {teams[i] : i \in S \cap DOMAIN teams}
  /\ \A tid \in DOMAIN snapshot \cap DOMAIN elo : snapshot[tid] = elo[tid]

\* C26: the standings list of a season is sorted by points in
\* non-increasing order, teams of equal points in their order of first
\* appearance in the season's matches; the top-3 and bottom-3 snapshots
\* are the first three and the last three teams of the list, each mapped
\* to its rating in the rating store after the last match of the season.
C26_Standings ==
  [][StandingsStep =>
       LET standings == prior_season_standings'[season]
           teams == standings.teams
           n == Len(teams)
       IN /\ OrderedStandings(teams, TeamPoints(matches, <<>>))
          /\ SnapshotOf(standings.top_3_elos, teams, 1..3, elo_ratings)
          /\ SnapshotOf(standings.bottom_3_elos, teams, (n - 2)..n,
                        elo_ratings)]_vars

\* the standings of a season of four teams, two of them level on points
\* and all of them in the rating store
C26_Witness ==
  /\ pc = "season"
  /\ season \in DOMAIN prior_season_standings
  /\ LET teams == prior_season_standings[season].teams
         team_points == TeamPoints(matches, <<>>)
     IN /\ Len(teams) = 4
        /\ Range(teams) \subseteq DOMAIN elo_ratings
        /\ Range(teams) = {team_points[i][1] : i \in DOMAIN team_points}
        /\ \E i \in 1..3 :
             PointsIn(team_points, teams[i]) = PointsIn(team_points, teams[i + 1])
        /\ prior_season_standings[season].top_3_elos
             # prior_season_standings[season].bottom_3_elos

\* C27: when a match is processed, both of its teams already have a
\* rating in the rating store, so that neither lookup of lines 299-300
\* takes the default.
C27_Defined ==
  [][UpdateStep =>
       /\ loc'.home_id \in DOMAIN elo_ratings
       /\ loc'.away_id \in DOMAIN elo_ratings]_vars

(***************************************************************************)
(* Two consecutive matches of a season, processed in either order          *)
(*                                                                         *)
(* The season's matches are the two documents; its teams continue from the *)
(* season before, so that the store holds a rating of each of them.        *)
(***************************************************************************)
\* the ratings of the teams before the two matches: all at the initial
\* rating, or each team at a rating of its own
SwapStores ==
  {[t \in 1..MaxRunTeams |-> INITIAL_ELO],
   [t \in 1..MaxRunTeams |-> (1400 + 100 * t) * Unit]}

\* lines 260-374 over the matches ms, from the ratings elo0: the ratings,
\* the documents with the recorded pre-match ratings, the standings
SwapRun(elo0, coll, ms) ==
  LET after == ApplyMatches([elo |-> elo0, coll |-> coll], ms, 1)
  IN [elo_ratings |-> after.elo,
      db |-> after.coll,
      standings |-> SeasonStandings(after.elo, S1920, ms)]

\* the two matches processed in the order of the corpus and in the other
SwapMatches ==
  /\ loc.op = "swap_inputs"
  /\ loc' = [op |-> "swapped", corpus |-> loc.corpus, store |-> loc.store,
             first |-> SwapRun(loc.store, loc.corpus,
                               <<loc.corpus[1], loc.corpus[2]>>),
             second |-> SwapRun(loc.store, loc.corpus,
                                <<loc.corpus[2], loc.corpus[1]>>)]
  /\ UNCHANGED updater_vars

InitSwap ==
  /\ Idle
  /\ \E m \in RunDocs(1), d \in RunDocs(2), elo0 \in SwapStores :
       /\ ~ShareTeam(m, d)
       /\ loc = [op |-> "swap_inputs", corpus |-> <<m, d>>, store |-> elo0]

SpecSwap == InitSwap /\ [][SwapMatches]_vars

\* the rating lines 234-257 give, in the season after, to a team that was
\* not in the season of the standings
PromotedElo(run) ==
  AssignedElo(run.elo_ratings, [s \in {S1920} |-> run.standings], S2021,
              MaxRunTeams + 1)

\* C28: processing two consecutive matches that share no team commutes:
\* either order yields the same rating store and the same recorded
\* pre-match ratings for both matches, so that the order of such matches
\* cannot change the outcome of a run, the rating of a team that joins in
\* the following season included
C28_Original ==
  loc.op = "swapped" =>
    /\ loc.first.elo_ratings = loc.second.elo_ratings
    /\ loc.first.db = loc.second.db
    /\ PromotedElo(loc.first) = PromotedElo(loc.second)

\* C28, amended: either order of two consecutive matches that share no
\* team yields the same rating store and the same recorded pre-match
\* ratings for both matches
C28_Commute ==
  loc.op = "swapped" =>
    /\ loc.first.elo_ratings = loc.second.elo_ratings
    /\ loc.first.db = loc.second.db

\* both orders were processed, from ratings that differ between the teams,
\* and both matches moved the ratings of their teams
C28_Witness ==
  /\ loc.op = "swapped"
  /\ loc.store[1] # loc.store[2]
  /\ \A t \in 1..MaxRunTeams : loc.first.elo_ratings[t] # loc.store[t]
  /\ \A i \in 1..2 : loc.first.db[i].home_elo_pre_match # Absent

(***************************************************************************)
(* Two runs over the same corpus from two snapshots                        *)
(***************************************************************************)
\* the documents of the corpus: at most MaxSnapDocs of them
MaxSnapDocs == 2

\* a document of competition 11 with a result, between two of the teams
\* 0..MaxTeam
SnapDocs(id) ==
  {m \in {MatchDoc(id, 11, date, home, away, hg, ag) :
            date \in 1..MaxSnapDocs, home \in 0..MaxTeam, away \in 0..MaxTeam,
            hg \in 0..MaxGoals, ag \in 0..MaxGoals} :
     m.homeID # m.awayID}

\* the corpora of one to MaxSnapDocs documents, in the order of their dates
SnapCorpora ==
  {c \in UNION {[1..n -> UNION {SnapDocs(i) : i \in 1..n}] :
                  n \in 1..MaxSnapDocs} :
     /\ \A i \in DOMAIN c : c[i].id = i
     /\ \A i \in DOMAIN c : \A j \in DOMAIN c :
          i < j => c[i].date_unix <= c[j].date_unix}

\* the snapshots load_elo_ratings may return: no file, or a file with a
\* rating of every team
Snapshots == {EmptyDict, Snapshot}

\* the season processed once from each of the two snapshots
SnapRuns ==
  /\ loc.op = "snap_inputs"
  /\ loc' = [op |-> "snap_runs", corpus |-> loc.corpus, loaded |-> loc.loaded,
             first |-> RunSeason(loc.loaded[1], loc.corpus, S1920, loc.corpus),
             second |-> RunSeason(loc.loaded[2], loc.corpus, S1920, loc.corpus)]
  /\ UNCHANGED updater_vars

InitSnap ==
  /\ Idle
  /\ \E coll \in SnapCorpora, a \in Snapshots, b \in Snapshots :
       loc = [op |-> "snap_inputs", corpus |-> coll, loaded |-> <<a, b>>]

SpecSnap == InitSnap /\ [][SnapRuns]_vars

\* the teams of the matches of the corpus
Appearing(coll) ==
  {coll[i].homeID : i \in DOMAIN coll} \cup {coll[i].awayID : i \in DOMAIN coll}

\* the teams outside the matches have in the store what the snapshot had
KeepsLoaded(run, snapshot, teams) ==
  /\ DOMAIN run.elo_ratings \ teams = DOMAIN snapshot \ teams
  /\ \A t \in DOMAIN snapshot \ teams : run.elo_ratings[t] = snapshot[t]

\* C29: the final rating of every team that appears in a match of a
\* processed season is the same in two runs over the same corpus from
\* different snapshots, and the teams that appear in no processed match
\* keep their loaded rating
C29_SnapshotFree ==
  loc.op = "snap_runs" =>
    LET teams == Appearing(loc.corpus)
    IN /\ \A t \in teams :
            /\ t \in DOMAIN loc.first.elo_ratings
            /\ t \in DOMAIN loc.second.elo_ratings
            /\ loc.first.elo_ratings[t] = loc.second.elo_ratings[t]
       /\ KeepsLoaded(loc.first, loc.loaded[1], teams)
       /\ KeepsLoaded(loc.second, loc.loaded[2], teams)

(***************************************************************************)
(* Claims about the counters of the solver's loop                          *)
(***************************************************************************)
\* the matches the loop has skipped so far, over the three counters
SkippedSoFar(l) ==
  l.missing_team_data_counter + l.missing_domestic_league_counter
  + l.missing_elo_counter

\* every match taken so far is used or skipped, once; after the loop the
\* matches taken are the matches retrieved
Accounted(l) ==
  /\ l.total_matches_used + SkippedSoFar(l) = l.k - 1
  /\ Len(l.data) = l.total_matches_used
  /\ l.at \in {"rows", "solve", "done", "exit", "failed", "returned"} =>
       l.total_matches_used + SkippedSoFar(l) = l.n
  /\ l.at \in {"solve", "done", "failed"} => l.idx - 1 = l.total_matches_used

\* the step of the body found no domestic league for one of the teams
Unresolved(match) ==
  /\ "home_league" \in DOMAIN match
  /\ match.home_league = Null \/ match.away_league = Null

\* C24: every retrieved inter-competition match is used or skipped, and
\* counted exactly once: the matches used and the three skip counters add
\* up to the matches retrieved, the rows given to the matrix builder are
\* the matches used, and a match with a team whose domestic competition is
\* not resolved goes to the counter of the missing domestic league
C24_Counted ==
  [][loc.op = "massey" =>
       /\ Accounted(loc')
       /\ loc.at = "body" =>
            /\ (loc'.total_matches_used - loc.total_matches_used)
               + (SkippedSoFar(loc') - SkippedSoFar(loc)) = 1
            /\ loc'.total_matches_used >= loc.total_matches_used
            /\ loc'.missing_team_data_counter >= loc.missing_team_data_counter
            /\ loc'.missing_elo_counter >= loc.missing_elo_counter
            /\ loc'.missing_domestic_league_counter
                 >= loc.missing_domestic_league_counter
            /\ Unresolved(loc'.match) =>
                 loc'.missing_domestic_league_counter
                   = loc.missing_domestic_league_counter + 1]_vars

\* the run ended with a table after a match used and a match skipped for a
\* team without a domestic league
C24_Witness ==
  /\ loc.op = "massey" /\ loc.at = "done"
  /\ loc.n = 2
  /\ loc.total_matches_used = 1
  /\ loc.missing_domestic_league_counter = 1

(***************************************************************************)
(* Claims about the failures of the solver and of the calibration          *)
(***************************************************************************)
\* C21: when solve_massey_equation returns no ratings, the run writes no
\* table of league ratings, with no partial or zero ratings, and is not
\* reported as successful
C21_Aborted ==
  (loc.op = "massey" /\ loc.at = "returned" /\ loc.solver_error) =>
    /\ loc.league_ratings = <<>>
    /\ loc.reported # "success"

\* C23: the calibration table is written only when the matches of every
\* batch were retrieved and accumulated: after a failed retrieval of a
\* batch no table made of the other batches is written
C23_AllOrNothing ==
  (loc.op = "calibration" /\ loc.saved) => loc.failed_batches = {}

(***************************************************************************)
(* Latest ratings of the teams: update_elo_collection.py                   *)
(*                                                                         *)
(* loc holds the locals of update_latest_team_elos and the two collections *)
(* it works on.  Every match document carries homeID and awayID, possibly  *)
(* None; a pre-match rating that is missing or None is Absent.             *)
(***************************************************************************)
\* the teams of the teams collection: 0..MaxLatestTeam
MaxLatestTeam == 1
\* the documents of the matches collection and of the teams collection
MaxLatestDocs == 2
MaxTeamDocs == 2

\* latest_elo and elo_last_updated written by an earlier run, and
\* int(time.time()) of this run
OldElo == 1300 * Unit
OldTime == 1
current_time == 2

\* the raw pre-match ratings the updater recorded on the document id
HomeRaw(id) == (1500 + 10 * id) * Unit
AwayRaw(id) == (1400 + 10 * id) * Unit

\* the documents a matches collection may hold under the id
LatestMatchDocs(id) ==
  {[id |-> id, homeID |-> home, awayID |-> away, status |-> status,
    date_unix |-> date,
    home_elo_pre_match |-> home_elo,
    home_elo_pre_match_HA |->
      IF home_elo = Absent THEN Absent ELSE home_elo + HOME_ADVANTAGE,
    away_elo_pre_match |-> away_elo,
    away_elo_pre_match_HA |-> away_elo] :
     home \in (0..MaxLatestTeam) \cup {Null},
     away \in (0..MaxLatestTeam) \cup {Null},
     status \in {"complete", "incomplete"},
     date \in 1..MaxLatestDocs,
     home_elo \in {Absent, HomeRaw(id)},
     away_elo \in {Absent, AwayRaw(id)}}

\* the matches collections: up to MaxLatestDocs documents
LatestMatches ==
  UNION {{c \in [1..n -> UNION {LatestMatchDocs(i) : i \in 1..n}] :
            \A i \in 1..n : c[i].id = i} : n \in 0..MaxLatestDocs}

\* the documents of the teams collection: one a run has never updated, or
\* one with the values of an earlier run
TeamDocs ==
  {[id |-> t, latest_elo |-> e[1], elo_last_updated |-> e[2]] :
     t \in 0..MaxLatestTeam, e \in {<<Absent, Absent>>, <<OldElo, OldTime>>}}

\* the teams collections: a team may have several documents
LatestTeams == UNION {[1..n -> TeamDocs] : n \in 0..MaxTeamDocs}

\* teams_collection.distinct("id"): the ids, each once, in any order
distinct(teams_collection) ==
  LET ids == {teams_collection[i].id : i \in DOMAIN teams_collection}
  IN {q \in [1..Cardinality(ids) -> ids] :
        \A i, j \in DOMAIN q : q[i] = q[j] => i = j}

\* find_one returning None: no document matches the filter
NoDocument == [id |-> Null]

\* the documents find_one may return with sort=[("date_unix", +1)]
find_one_oldest(matches_collection, team_id) ==
  LET found == {i \in DOMAIN matches_collection :
                  /\ \/ matches_collection[i].homeID = team_id
                     \/ matches_collection[i].awayID = team_id
                  /\ matches_collection[i].status = "complete"}
  IN IF found = {} THEN {NoDocument}
     ELSE {matches_collection[i] :
             i \in {k \in found : \A j \in found :
                      matches_collection[k].date_unix
                        <= matches_collection[j].date_unix}}

\* matches_collection.find_one({"$or": [{"homeID": team_id}, {"awayID":
\* team_id}], "status": "complete"}, sort=[("date_unix", -1)]): the
\* documents it may return, NoDocument for None
find_one(matches_collection, team_id) ==
  LET found == {i \in DOMAIN matches_collection :
                  /\ \/ matches_collection[i].homeID = team_id
                     \/ matches_collection[i].awayID = team_id
                  /\ matches_collection[i].status = "complete"}
  IN IF found = {} THEN {NoDocument}
     ELSE {matches_collection[i] :
             i \in {k \in found : \A j \in found :
                      matches_collection[j].date_unix
                        <= matches_collection[k].date_unix}}

\* teams_collection.update_one({"id": team_id}, {"$set": {...}}): the first
\* document of the team gets the two fields
update_one(teams_collection, team_id, latest_elo, now) ==
  IF \A i \in DOMAIN teams_collection : teams_collection[i].id # team_id
  THEN teams_collection
  ELSE LET k == CHOOSE i \in DOMAIN teams_collection :
                  /\ teams_collection[i].id = team_id
                  /\ \A j \in 1..(i - 1) : teams_collection[j].id # team_id
       IN [teams_collection EXCEPT ![k] =
             [@ EXCEPT !.latest_elo = latest_elo, !.elo_last_updated = now]]

\* lines 21-25: no team in the collection, the function returns
LatestNoTeams ==
  /\ loc.op = "latest" /\ loc.at = "start"
  /\ loc.teams = <<>>
  /\ loc' = [loc EXCEPT !.at = "returned"]
  /\ UNCHANGED updater_vars

\* lines 21-30: the ids of the teams
LatestDistinct ==
  /\ loc.op = "latest" /\ loc.at = "start"
  /\ loc.teams # <<>>
  /\ \E all_teams \in distinct(loc.teams) :
       loc' = [loc EXCEPT !.at = "loop", !.all_teams = all_teams, !.i = 1]
  /\ UNCHANGED updater_vars

\* lines 33-60: one iteration of "for team_id in all_teams"
LatestTeam ==
  /\ loc.op = "latest" /\ loc.at = "loop"
  /\ loc.i <= Len(loc.all_teams)
  /\ LET team_id == loc.all_teams[loc.i]
     IN \E recent_match \in find_one(loc.matches, team_id) :
          IF recent_match = NoDocument
          THEN loc' = [loc EXCEPT !.i = loc.i + 1, !.recent_match = 0]
          ELSE LET latest_elo == IF recent_match.homeID = team_id
                                 THEN recent_match.home_elo_pre_match
                                 ELSE recent_match.away_elo_pre_match
               IN IF latest_elo = Absent
                  THEN loc' = [loc EXCEPT !.i = loc.i + 1,
                                          !.recent_match = recent_match.id]
                  ELSE loc' = [loc EXCEPT
                                 !.i = loc.i + 1,
                                 !.recent_match = recent_match.id,
                                 !.teams = update_one(@, team_id, latest_elo,
                                                      current_time)]
  /\ UNCHANGED updater_vars

\* line 62: every team has been processed
LatestFinished ==
  /\ loc.op = "latest" /\ loc.at = "loop"
  /\ loc.i > Len(loc.all_teams)
  /\ loc' = [loc EXCEPT !.at = "returned"]
  /\ UNCHANGED updater_vars

LatestNext == LatestNoTeams \/ LatestDistinct \/ LatestTeam \/ LatestFinished

\* lines 13-18: the call of update_latest_team_elos on a database
InitLatest ==
  /\ Idle
  /\ \E matches_collection \in LatestMatches, teams_collection \in LatestTeams :
       loc = [op |-> "latest", at |-> "start",
              matches |-> matches_collection, teams |-> teams_collection,
              all_teams |-> <<>>, i |-> 0, recent_match |-> 0]

SpecLatest == InitLatest /\ [][LatestNext]_vars

\* the completed matches of the team, and the latest of them by date
CompletedOf(team_id) ==
  {i \in DOMAIN loc.matches :
     /\ loc.matches[i].status = "complete"
     /\ loc.matches[i].homeID = team_id \/ loc.matches[i].awayID = team_id}

MostRecentOf(team_id) ==
  {i \in CompletedOf(team_id) :
     \A j \in CompletedOf(team_id) :
       loc.matches[j].date_unix <= loc.matches[i].date_unix}

\* the raw pre-match rating of the team's side of the match: the home
\* field when the team was home, the away field otherwise
SideRating(match, team_id) ==
  IF match.homeID = team_id THEN match.home_elo_pre_match
  ELSE match.away_elo_pre_match

\* the record of the team: the first document of its id
RecordOf(teams_collection, team_id) ==
  CHOOSE i \in DOMAIN teams_collection :
    /\ teams_collection[i].id = team_id
    /\ \A j \in 1..(i - 1) : teams_collection[j].id # team_id

\* the iteration of the loop over the teams
LatestStep == loc.op = "latest" /\ loc.at = "loop" /\ loc'.at = "loop"

\* C30: update_latest_team_elos sets the latest_elo of a team to the raw
\* pre-match rating of the team's side on its most recent completed match
\* by date; with no completed match, or no rating on the most recent one,
\* latest_elo and elo_last_updated stay as they were; the record of no
\* other team is touched
C30_Latest ==
  [][LatestStep =>
       LET team_id == loc.all_teams[loc.i]
           k == RecordOf(loc.teams, team_id)
       IN /\ \A i \in DOMAIN loc.teams :
               loc.teams[i].id # team_id => loc'.teams[i] = loc.teams[i]
          /\ DOMAIN loc'.teams = DOMAIN loc.teams
          /\ IF CompletedOf(team_id) = {} THEN loc'.teams = loc.teams
             ELSE \E m \in MostRecentOf(team_id) :
                    /\ loc'.recent_match = m
                    /\ IF SideRating(loc.matches[m], team_id) = Absent
                       THEN loc'.teams = loc.teams
                       ELSE /\ loc'.teams[k].latest_elo
                                 = SideRating(loc.matches[m], team_id)
                            /\ loc'.teams[k].latest_elo
                                 \in {HomeRaw(m), AwayRaw(m)}
                            /\ loc'.teams[k].elo_last_updated = current_time
                            /\ loc'.teams[k].id = team_id]_vars

\* the run has ended: team 0 has the rating of the later of its two
\* completed matches, where it played away, and team 1, whose only
\* completed match carries no rating of its side, has what it had
C30_Witness ==
  /\ loc.op = "latest" /\ loc.at = "returned"
  /\ Len(loc.matches) = 2 /\ Len(loc.teams) = 2
  /\ loc.matches[1].status = "complete" /\ loc.matches[2].status = "complete"
  /\ loc.matches[1].homeID = 0 /\ loc.matches[1].date_unix = 1
  /\ loc.matches[1].home_elo_pre_match # Absent
  /\ loc.matches[2].homeID = 1 /\ loc.matches[2].awayID = 0
  /\ loc.matches[2].date_unix = 2
  /\ loc.matches[2].home_elo_pre_match = Absent
  /\ loc.teams[1].id = 0 /\ loc.teams[2].id = 1
  /\ loc.teams[1].latest_elo = AwayRaw(2)
  /\ loc.teams[1].elo_last_updated = current_time
  /\ loc.teams[2].latest_elo = OldElo
  /\ loc.teams[2].elo_last_updated = OldTime

=============================================================================
